---- MODULE Spec2Model ----
(***************************************************************************)
(* A model of the light-shaping manipulators of GafferSceneUI: the          *)
(* LightTool orchestrator with its SpotLightHandle and WidthHeightHandle    *)
(* gadgets (src/src/GafferSceneUI/LightTool.cpp) and the older              *)
(* SpotLightTool (src/src/GafferSceneUI/SpotLightTool.cpp).                 *)
(*                                                                         *)
(* Angles are in degrees.  Plug values are kept on a grid on which the      *)
(* code's float conversions (halving, doubling, the angle multiplier) are  *)
(* exact, so integer arithmetic computes what the float code computes.      *)
(***************************************************************************)
EXTENDS Integers, Sequences, FiniteSets, TLC

(***************************************************************************)
(* Optional values (a null pointer, an empty std::optional).                *)
(***************************************************************************)
None == <<>>

Some(x) == <<x>>

Get(o) == o[1]

Max(a, b) == IF a >= b THEN a ELSE b

Min(a, b) == IF a <= b THEN a ELSE b

Abs(a) == IF a >= 0 THEN a ELSE 0 - a

(***************************************************************************)
(* Bounds of the model.                                                     *)
(***************************************************************************)
\* Drags a tool performs in one behaviour under all the events of the view
\* and the scene (caps m_mergeGroupId).
MaxDrags == 1

\* Drags in one behaviour of back-to-back drags on spot lights.
MaxSpotDrags == 3

\* Entries of the undo list up to which a caller of setAngle opens an
\* UndoScope of its own.
MaxUndoEntries == 1

\* The tweaks of a ShaderTweaks node that ParameterInspector::source scans.
MaxTweaks == 3

\* The warnings and non-editable reasons drawSelectionTips is given.
MaxWarningTips == 6

(***************************************************************************)
(* Program constants.                                                       *)
(***************************************************************************)
\* std::clamp( angle, 0.f, 90.f ) in clampHandleAngle.
Ninety == 90

\* g_circleHandleWidthLarge, the penumbra handle hides below twice this.
g_circleHandleWidthLarge == 3

\* m_mergeGroupId( 0 ) in the constructor.
InitialMergeGroupId == 0

\* g_warningTipCount, the warnings a tooltip lists before it counts them.
g_warningTipCount == 3

(***************************************************************************)
(* The scene: locations, the light shader at each, the metadata registered  *)
(* for each shader.  PathOrder is PathMatcher's iteration order.            *)
(***************************************************************************)
PathOrder == <<"lightA", "lightB">>

Paths == {PathOrder[i] : i \in 1..Len(PathOrder)}

g_insetPenumbraType == "inset"

g_outsetPenumbraType == "outset"

g_absolutePenumbraType == "absolute"

\* The shaders a location's "light" attribute may hold.  "mesh" stands for a
\* location without any light attribute; "spotCustom" is a spot light of a
\* node whose angle plugs are not FloatPlugs although the shader it computes
\* holds FloatData; "spotConeOnly" and "spotConeOnlyOutset" are spot lights
\* registered without a penumbraAngleParameter, the second with penumbraType
\* "outset".
Shaders ==
    {"spotInset", "spotOutset", "spotAbsolute", "spotPlain", "spotCustom",
     "spotConeOnly", "spotConeOnlyOutset", "quad", "disk", "mesh"}

\* The shader name standing for a selected path that is not in the scene.
MissingLocation == "missing"

\* Metadata::value<StringData>( shaderAttribute, key ): None when unregistered.
Metadata(shader, key) ==
    CASE key = "type" ->
            IF shader \in {"spotInset", "spotOutset", "spotAbsolute", "spotPlain", "spotCustom",
                           "spotConeOnly", "spotConeOnlyOutset"}
            THEN Some("spot")
            ELSE IF shader = "quad" THEN Some("quad")
            ELSE IF shader = "disk" THEN Some("disk")
            ELSE None
      [] key = "coneAngleParameter" ->
            IF shader \in {"spotInset", "spotOutset", "spotAbsolute", "spotPlain", "spotCustom",
                           "spotConeOnly", "spotConeOnlyOutset"}
            THEN Some("coneAngle") ELSE None
      [] key = "penumbraAngleParameter" ->
            IF shader \in {"spotInset", "spotOutset", "spotAbsolute", "spotPlain", "spotCustom"}
            THEN Some("penumbraAngle") ELSE None
      [] key = "penumbraType" ->
            IF shader = "spotInset" THEN Some(g_insetPenumbraType)
            ELSE IF shader \in {"spotOutset", "spotConeOnlyOutset"} THEN Some(g_outsetPenumbraType)
            ELSE IF shader = "spotAbsolute" THEN Some(g_absolutePenumbraType)
            ELSE None
      [] key = "coneAngleType" ->
            IF shader \in {"spotOutset", "spotAbsolute"} THEN Some("half") ELSE None
      [] key = "widthParameter" -> IF shader = "quad" THEN Some("width") ELSE None
      [] key = "heightParameter" -> IF shader = "quad" THEN Some("height") ELSE None
      [] key = "radiusParameter" -> IF shader = "disk" THEN Some("radius") ELSE None
      [] OTHER -> None

\* The parameters of a shader's output shader (Shader::parametersData()).
ShaderParameters(shader) ==
    CASE shader \in {"spotInset", "spotOutset", "spotAbsolute", "spotPlain", "spotCustom"} ->
            {"coneAngle", "penumbraAngle"}
      [] shader \in {"spotConeOnly", "spotConeOnlyOutset"} -> {"coneAngle"}
      [] shader = "quad" -> {"width", "height"}
      [] shader = "disk" -> {"radius"}
      [] OTHER -> {}

\* The attribute that holds the light's shader network (g_lightAttributePattern).
LightAttribute == "light"

(***************************************************************************)
(* State.                                                                   *)
(***************************************************************************)
VARIABLES
    \* The host scene: per location the shader, whether a node of the script
    \* produces it (else it comes from a file and has no source plug) and
    \* whether it is read-only; whether the view has an edit scope.
    lights, editScope,
    \* Plug values by location and parameter (plug space), and the parameter
    \* edits that exist in the edit scope.
    values, edits,
    \* The view: its context's selection, whether it has an input scene (it
    \* keeps the input it has when the tool is constructed).
    selectedPaths, lastSelectedPath, sceneInput,
    \* LightTool members.
    active, m_dragging, m_mergeGroupId, m_scriptNode,
    m_handleInspectionsDirty, m_handleTransformsDirty, m_priorityPathsDirty,
    \* m_handles: the container's visibility, the SpotLightHandle and
    \* WidthHeightHandle children.
    handlesVisible, spot, wh,
    \* The gadget being dragged (held by the viewport between dragBegin and dragEnd).
    dragHandle,
    \* The script's undo list.
    undoStack,
    \* The SpotLightTool of the view.
    slt,
    \* What the last step did (signals emitted, edits acquired, plugs written,
    \* the priority paths and the handles' transform it set) and what the
    \* current drag did so far: observations, read by no action.
    step, drag

worldVars == <<lights, editScope, values, edits, undoStack>>

viewVars == <<selectedPaths, lastSelectedPath, sceneInput>>

toolVars == <<active, m_dragging, m_mergeGroupId, m_scriptNode, m_handleInspectionsDirty,
              m_handleTransformsDirty, m_priorityPathsDirty, handlesVisible,
              spot, wh, dragHandle>>

vars == <<worldVars, viewVars, toolVars, slt, step, drag>>

(***************************************************************************)
(* Inspection (Inspector::inspect with ParameterInspector's history, value  *)
(* and source): null when the location has no such attribute or the output  *)
(* shader has no such parameter; otherwise the value, whether a source plug *)
(* exists, and whether an edit may be acquired.                             *)
(***************************************************************************)
\* ParameterInspector( scene, editScope, attribute, parameter ).
ParameterInspector(attribute, parameter) == [attribute |-> attribute, parameter |-> parameter]

\* AttributeInspector::attributeExists for the path in the context.
attributeExists(inspector, path) ==
    /\ lights[path].shader \notin {"mesh", MissingLocation}
    /\ inspector.attribute = LightAttribute

\* ParameterInspector::value: the parameter's member of the output shader.
InspectorValue(inspector, path) ==
    IF inspector.parameter \in DOMAIN values[path]
    THEN Some(values[path][inspector.parameter])
    ELSE None

\* ParameterInspector::source: the Light node's parameter plug, or the edit in
\* the edit scope; null for a light that no node of the script produces.
InspectorSource(inspector, path) ==
    lights[path].node \/ <<path, inspector.parameter>> \in edits

\* ParameterInspector::editFunction and Inspector::inspect: a read-only node
\* gives a reason instead of an edit function; without a source an edit can
\* only be made in an edit scope.
InspectorEditable(inspector, path) ==
    /\ ~lights[path].locked
    /\ (InspectorSource(inspector, path) \/ editScope)

\* Inspector::inspect() with `path` current in the context.
Inspect(inspector, path) ==
    IF ~attributeExists(inspector, path) \/ InspectorValue(inspector, path) = None
    THEN None
    ELSE Some([path |-> path,
               parameter |-> inspector.parameter,
               value |-> Get(InspectorValue(inspector, path)),
               source |-> InspectorSource(inspector, path),
               editable |-> InspectorEditable(inspector, path)])

\* Inspect through a possibly null inspector pointer (callers test it first).
InspectOpt(inspectorOpt, path) ==
    IF inspectorOpt = None THEN None ELSE Inspect(Get(inspectorOpt), path)

(***************************************************************************)
(* SpotLightHandle.  LightTool creates four rotated copies of the Cone and  *)
(* of the Penumbra handle; the copies differ only in m_zRotation, which no  *)
(* value computed here reads, so one handle of each type is modelled.       *)
(***************************************************************************)
SpotHandles == {"Penumbra", "Cone"}

\* LightToolHandle::isLightType: the "type" metadata matches m_lightTypePattern.
isLightType(shader, lightTypePattern) ==
    /\ Metadata(shader, "type") # None
    /\ Get(Metadata(shader, "type")) = lightTypePattern

\* ScenePath::isValid for the handle's scene path: the location exists.
PathIsValid(path) == lights[path].shader # MissingLocation

\* The constructor: no inspectors, multiplier 1, empty drag data.
NoDragStartData ==
    [coneInspection |-> None, originalConeHandleAngle |-> 0,
     penumbraInspection |-> None, originalPenumbraHandleAngle |-> None]

SpotLightHandleInit ==
    [m_handleScenePath |-> None,
     m_coneAngleInspector |-> None,
     m_penumbraAngleInspector |-> None,
     m_penumbraType |-> None,
     m_angleMultiplier |-> 1,
     m_inspections |-> <<>>,
     m_dragStartData |-> NoDragStartData,
     m_drag |-> FALSE,
     m_rasterXOffset |-> 0,
     m_rasterZPosition |-> 0,
     visible |-> FALSE,
     enabled |-> TRUE]

\* A faulty update: the multiplier of a half-angle cone is doubled at every
\* call instead of being set to 2.
SpotLightHandleUpdateDoubling(h, path) ==
    LET bound == [h EXCEPT !.m_handleScenePath = Some(path)]
        shader == lights[path].shader
    IN  IF ~PathIsValid(path)
        THEN [bound EXCEPT !.m_coneAngleInspector = None, !.m_penumbraAngleInspector = None]
        ELSE IF shader = "mesh"
                \/ ~isLightType(shader, "spot")
                \/ Metadata(shader, "coneAngleParameter") = None
        THEN bound
        ELSE [bound EXCEPT
                !.m_coneAngleInspector =
                    Some(ParameterInspector(LightAttribute, Get(Metadata(shader, "coneAngleParameter")))),
                !.m_penumbraType = Metadata(shader, "penumbraType"),
                !.m_penumbraAngleInspector =
                    IF Metadata(shader, "penumbraAngleParameter") # None
                    THEN Some(ParameterInspector(LightAttribute, Get(Metadata(shader, "penumbraAngleParameter"))))
                    ELSE None,
                !.m_angleMultiplier =
                    IF Metadata(shader, "coneAngleType") = Some("half") THEN @ * 2 ELSE 1]

\* SpotLightHandle::update( scenePath, editScope ).  When the location holds no
\* spot light with a coneAngleParameter the loop ends without touching the
\* members, which keep what an earlier update stored.
SpotLightHandleUpdate(h, path) ==
    LET bound == [h EXCEPT !.m_handleScenePath = Some(path)]
        shader == lights[path].shader
    IN  IF ~PathIsValid(path)
        THEN [bound EXCEPT !.m_coneAngleInspector = None, !.m_penumbraAngleInspector = None]
        ELSE IF shader = "mesh"
                \/ ~isLightType(shader, "spot")
                \/ Metadata(shader, "coneAngleParameter") = None
        THEN bound
        ELSE [bound EXCEPT
                !.m_coneAngleInspector =
                    Some(ParameterInspector(LightAttribute, Get(Metadata(shader, "coneAngleParameter")))),
                !.m_penumbraType = Metadata(shader, "penumbraType"),
                !.m_penumbraAngleInspector =
                    IF Metadata(shader, "penumbraAngleParameter") # None
                    THEN Some(ParameterInspector(LightAttribute, Get(Metadata(shader, "penumbraAngleParameter"))))
                    ELSE None,
                !.m_angleMultiplier =
                    IF Metadata(shader, "coneAngleType") = Some("half") THEN 2 ELSE 1]

\* SpotLightHandle::handleAngles: plug space to handle space
\* (cone * 0.5f * m_angleMultiplier; the penumbra halved only when absolute).
handleAngles(h, coneAngleData, penumbraAngleData) ==
    [cone |-> (coneAngleData * h.m_angleMultiplier) \div 2,
     penumbra |-> IF penumbraAngleData = None THEN None
                  ELSE IF h.m_penumbraType # Some(g_absolutePenumbraType)
                       THEN Some(Get(penumbraAngleData))
                       ELSE Some(Get(penumbraAngleData) \div 2)]

\* SpotLightHandle::conePlugAngle: a * 2.f / m_angleMultiplier.
conePlugAngle(h, a) == (a * 2) \div h.m_angleMultiplier

\* A faulty penumbraPlugAngle: the absolute penumbra is not doubled back.
penumbraPlugAngleUnscaled(h, a) == a

\* SpotLightHandle::penumbraPlugAngle.
penumbraPlugAngle(h, a) ==
    IF h.m_penumbraType # Some(g_absolutePenumbraType) THEN a ELSE a * 2

\* The DragStartData for the location `path` current in the context: the
\* inspections and the handle-space angles.  The body shared by
\* spotLightHandleAngles (handle's own path) and addDragInspection.
DragStartDataAt(h, path) ==
    LET coneInspection == InspectOpt(h.m_coneAngleInspector, path)
        penumbraInspection == InspectOpt(h.m_penumbraAngleInspector, path)
    IN  IF coneInspection = None
        THEN NoDragStartData
        ELSE LET a == handleAngles(h, Get(coneInspection).value,
                                   IF penumbraInspection = None THEN None
                                   ELSE Some(Get(penumbraInspection).value))
             IN  [coneInspection |-> coneInspection,
                  originalConeHandleAngle |-> a.cone,
                  penumbraInspection |-> penumbraInspection,
                  originalPenumbraHandleAngle |-> a.penumbra]

\* SpotLightHandle::spotLightHandleAngles: inspects at the handle's scene path.
spotLightHandleAngles(h) == DragStartDataAt(h, Get(h.m_handleScenePath))

\* SpotLightHandle::addDragInspection with `path` current in the context.
SpotLightHandleAddDragInspection(h, path) ==
    IF InspectOpt(h.m_coneAngleInspector, path) = None
    THEN h
    ELSE [h EXCEPT !.m_inspections = Append(@, DragStartDataAt(h, path))]

\* The distance in raster space between the cone edge and the penumbra edge
\* as the handle's visible() measures it.  The viewport is taken to show one
\* pixel per degree of penumbra; a penumbra of zero projects onto the cone
\* edge whatever the camera.
PenumbraRasterDistance(penumbraAngle) == Abs(penumbraAngle)

\* A faulty visible(): the distance of the penumbra from the cone is ignored.
SpotLightHandleVisibleAtAnyDistance(h, handleType, path) ==
    IF h.m_coneAngleInspector = None \/ (handleType = "Penumbra" /\ h.m_penumbraAngleInspector = None)
    THEN FALSE
    ELSE ~(\/ InspectOpt(h.m_coneAngleInspector, path) = None
           \/ (handleType = "Penumbra" /\ InspectOpt(h.m_penumbraAngleInspector, path) = None))

\* SpotLightHandle::visible() with `path` current in the context.
SpotLightHandleVisible(h, handleType, path) ==
    IF h.m_coneAngleInspector = None \/ (handleType = "Penumbra" /\ h.m_penumbraAngleInspector = None)
    THEN FALSE
    ELSE IF InspectOpt(h.m_coneAngleInspector, path) = None
            \/ (handleType = "Penumbra" /\ InspectOpt(h.m_penumbraAngleInspector, path) = None)
    THEN FALSE
    ELSE LET a == spotLightHandleAngles(h)
         IN  ~(/\ handleType = "Penumbra"
               /\ a.originalPenumbraHandleAngle # None
               /\ PenumbraRasterDistance(Get(a.originalPenumbraHandleAngle)) < 2 * g_circleHandleWidthLarge)

\* SpotLightHandle::enabled().
SpotLightHandleEnabled(h) == h.m_coneAngleInspector # None

\* SpotLightHandle::inspectors(): null pointers included.
SpotLightHandleInspectors(h, handleType) ==
    IF handleType = "Cone"
    THEN <<h.m_coneAngleInspector>>
    ELSE IF h.m_penumbraType = None
            \/ h.m_penumbraType = Some(g_insetPenumbraType)
            \/ h.m_penumbraType = Some(g_outsetPenumbraType)
    THEN <<h.m_coneAngleInspector, h.m_penumbraAngleInspector>>
    ELSE <<h.m_penumbraAngleInspector>>

\* clampHandleAngle dereferences an empty optional penumbra angle (and so
\* raises std::bad_optional_access) for a Cone handle of an outset light.
clampHandleAngleThrows(h, handleType, originalPenumbraAngle) ==
    /\ handleType = "Cone"
    /\ originalPenumbraAngle = None
    /\ h.m_penumbraType = Some(g_outsetPenumbraType)

\* A faulty clampHandleAngle: the range is clamped, the other angle ignored.
clampHandleAngleToRange(h, handleType, angle, originalConeAngle, originalPenumbraAngle) ==
    Max(0, Min(angle, Ninety))

\* SpotLightHandle::clampHandleAngle.
clampHandleAngle(h, handleType, angle, originalConeAngle, originalPenumbraAngle) ==
    LET result == Max(0, Min(angle, Ninety))
    IN  IF handleType = "Cone"
        THEN IF originalPenumbraAngle # None
                /\ (h.m_penumbraType = None \/ h.m_penumbraType = Some(g_insetPenumbraType))
             THEN Max(result, Get(originalPenumbraAngle))
             ELSE IF h.m_penumbraType = Some(g_outsetPenumbraType)
             THEN Min(result, Ninety - Get(originalPenumbraAngle))
             ELSE result
        ELSE IF h.m_penumbraType = None \/ h.m_penumbraType = Some(g_insetPenumbraType)
             THEN Min(result, originalConeAngle)
             ELSE IF h.m_penumbraType = Some(g_outsetPenumbraType)
             THEN Min(result, Ninety - originalConeAngle)
             ELSE result

\* A faulty allInspectionsEnabled: one editable snapshot is enough.
SpotLightHandleAnyInspectionEnabled(h, handleType) ==
    \E i \in 1..Len(h.m_inspections) :
        LET inspection == IF handleType = "Cone"
                          THEN h.m_inspections[i].coneInspection
                          ELSE h.m_inspections[i].penumbraInspection
        IN  inspection # None /\ Get(inspection).editable

\* SpotLightHandle::allInspectionsEnabled.
SpotLightHandleAllInspectionsEnabled(h, handleType) ==
    \A i \in 1..Len(h.m_inspections) :
        LET inspection == IF handleType = "Cone"
                          THEN h.m_inspections[i].coneInspection
                          ELSE h.m_inspections[i].penumbraInspection
        IN  inspection # None /\ Get(inspection).editable

(***************************************************************************)
(* WidthHeightHandle.  LightTool creates an edge handle on each side and a  *)
(* corner handle in each corner of a quad light, and one Width handle for   *)
(* the radius of a disk light; handles of one kind differ only in the signs *)
(* that place them, so one of each kind is modelled.  Lengths are in tenths *)
(* of a scene unit and the light's transform has unit scale (m_scale = 1).  *)
(***************************************************************************)
WHHandles == {"quadWidth", "quadCorner", "quadHeight", "diskRadius"}

\* The constructor arguments LightTool passes: light type, handle type mask,
\* and the metadata keys naming the width and height parameters.
WidthHeightHandleConfig(id) ==
    CASE id = "quadWidth" ->
            [lightType |-> "quad", m_handleType |-> {"Width"},
             m_widthParameter |-> "widthParameter", m_heightParameter |-> "heightParameter"]
      [] id = "quadCorner" ->
            [lightType |-> "quad", m_handleType |-> {"Width", "Height"},
             m_widthParameter |-> "widthParameter", m_heightParameter |-> "heightParameter"]
      [] id = "quadHeight" ->
            [lightType |-> "quad", m_handleType |-> {"Height"},
             m_widthParameter |-> "widthParameter", m_heightParameter |-> "heightParameter"]
      [] id = "diskRadius" ->
            [lightType |-> "disk", m_handleType |-> {"Width"},
             m_widthParameter |-> "radiusParameter", m_heightParameter |-> "radiusParameter"]

\* 1.f in tenths of a scene unit.
OneUnit == 10

NoInspectionInfo ==
    [widthInspection |-> None, originalWidth |-> 0,
     heightInspection |-> None, originalHeight |-> 0]

WidthHeightHandleInit ==
    [m_handleScenePath |-> None,
     m_widthInspector |-> None,
     m_heightInspector |-> None,
     m_inspections |-> <<>>,
     m_dragStartInfo |-> NoInspectionInfo,
     m_drag |-> FALSE,
     visible |-> FALSE,
     enabled |-> TRUE]

\* WidthHeightHandle::update: the inspectors are reset before anything else.
WidthHeightHandleUpdate(h, id, path) ==
    LET cfg == WidthHeightHandleConfig(id)
        bound == [h EXCEPT !.m_handleScenePath = Some(path),
                           !.m_widthInspector = None,
                           !.m_heightInspector = None]
        shader == lights[path].shader
    IN  IF ~PathIsValid(path)
        THEN bound
        ELSE IF shader = "mesh"
                \/ ~isLightType(shader, cfg.lightType)
                \/ Metadata(shader, cfg.m_widthParameter) = None
                \/ Metadata(shader, cfg.m_heightParameter) = None
        THEN bound
        ELSE [bound EXCEPT
                !.m_widthInspector =
                    Some(ParameterInspector(LightAttribute, Get(Metadata(shader, cfg.m_widthParameter)))),
                !.m_heightInspector =
                    Some(ParameterInspector(LightAttribute, Get(Metadata(shader, cfg.m_heightParameter))))]

\* WidthHeightHandle::inspectionInfo with `path` current in the context.
inspectionInfo(h, path) ==
    LET widthInspection == InspectOpt(h.m_widthInspector, path)
        heightInspection == InspectOpt(h.m_heightInspector, path)
    IN  [widthInspection |-> widthInspection,
         originalWidth |-> IF widthInspection = None THEN 0 ELSE Get(widthInspection).value,
         heightInspection |-> heightInspection,
         originalHeight |-> IF heightInspection = None THEN 0 ELSE Get(heightInspection).value]

\* WidthHeightHandle::handleInspections: inspects at the handle's scene path.
handleInspections(h) == inspectionInfo(h, Get(h.m_handleScenePath))

\* WidthHeightHandle::addDragInspection with `path` current in the context.
WidthHeightHandleAddDragInspection(h, path) ==
    LET i == inspectionInfo(h, path)
    IN  IF i.widthInspection = None \/ i.heightInspection = None
        THEN h
        ELSE [h EXCEPT !.m_inspections = Append(@, i)]

\* WidthHeightHandle::visible() with `path` current in the context.
WidthHeightHandleVisible(h, path) ==
    IF h.m_widthInspector = None \/ h.m_heightInspector = None
    THEN FALSE
    ELSE ~(InspectOpt(h.m_widthInspector, path) = None \/ InspectOpt(h.m_heightInspector, path) = None)

\* WidthHeightHandle::enabled().
WidthHeightHandleEnabled(h) == h.m_widthInspector # None /\ h.m_heightInspector # None

\* WidthHeightHandle::inspectors().
WidthHeightHandleInspectors(h) == <<h.m_widthInspector, h.m_heightInspector>>

\* WidthHeightHandle::allInspectionsEnabled.
WidthHeightHandleAllInspectionsEnabled(h, id) ==
    \A i \in 1..Len(h.m_inspections) :
        /\ "Width" \in WidthHeightHandleConfig(id).m_handleType =>
              (h.m_inspections[i].widthInspection # None /\ Get(h.m_inspections[i].widthInspection).editable)
        /\ "Height" \in WidthHeightHandleConfig(id).m_handleType =>
              (h.m_inspections[i].heightInspection # None /\ Get(h.m_inspections[i].heightInspection).editable)

(***************************************************************************)
(* The script's undo list (Gaffer::UndoScope, ScriptNode): an UndoScope on  *)
(* a null script records nothing; the actions of a scope that closes with   *)
(* the merge group of the newest entry are merged into that entry, else     *)
(* they form a new entry.  An entry keeps, for each plug it touched, the    *)
(* value (and whether the edit existed) before its first action.            *)
(***************************************************************************)
TheScript == "script"

SameKey(a, b) == a.path = b.path /\ a.parameter = b.parameter

MergeBefore(older, newer) ==
    older \cup {n \in newer : ~\E o \in older : SameKey(o, n)}

\* ~UndoScope: ScriptNode::popUndoState with the accumulated actions.
CloseUndoScope(stack, mergeGroup, recorded) ==
    IF recorded = {}
    THEN stack
    ELSE IF stack # <<>> /\ stack[Len(stack)].mergeGroup = mergeGroup
    THEN [stack EXCEPT ![Len(stack)].before = MergeBefore(@, recorded)]
    ELSE Append(stack, [mergeGroup |-> mergeGroup, before |-> recorded])

\* The plug values after undoing an entry.
ValuesBefore(vals, entry) ==
    [p \in DOMAIN vals |->
        [q \in DOMAIN vals[p] |->
            IF \E b \in entry.before : b.path = p /\ b.parameter = q
            THEN (CHOOSE b \in entry.before : b.path = p /\ b.parameter = q).value
            ELSE vals[p][q]]]

\* The edits of the edit scope after undoing an entry.
EditsBefore(eds, entry) ==
    eds \ {<<b.path, b.parameter>> : b \in {x \in entry.before : ~x.edit}}

(***************************************************************************)
(* Writing through an inspection: acquireEdit() returns the source plug or  *)
(* finds-or-creates the edit in the edit scope; activeValuePlug and         *)
(* setValueOrAddKey then set the value.  A write that changes nothing       *)
(* enacts no action.  `w` carries the values, the edits, what the open undo *)
(* scope recorded and whether anything changed.                             *)
(***************************************************************************)
WriteThrough(w, x, scoped) ==
    LET key == <<x.path, x.parameter>>
        old == w.values[x.path][x.parameter]
        hadEdit == key \in w.edits
        touched == (editScope /\ ~hadEdit) \/ old # x.value
        already == \E b \in w.recorded : SameKey(b, x)
    IN  [values |-> [w.values EXCEPT ![x.path][x.parameter] = x.value],
         edits |-> IF editScope THEN w.edits \cup {key} ELSE w.edits,
         recorded |-> IF scoped /\ touched /\ ~already
                      THEN w.recorded \cup {[path |-> x.path, parameter |-> x.parameter,
                                             value |-> old, edit |-> hadEdit]}
                      ELSE w.recorded,
         changed |-> w.changed \/ touched]

RECURSIVE ApplyWrites(_, _, _)
ApplyWrites(w, writes, scoped) ==
    IF writes = <<>>
    THEN w
    ELSE ApplyWrites(WriteThrough(w, Head(writes), scoped), Tail(writes), scoped)

(***************************************************************************)
(* handleDragMove.  The event gives the candidate angle the drag primitive  *)
(* computes (or a miss of the click sphere, `hit` false); the result lists  *)
(* the inspections whose edit was acquired and the values written, in       *)
(* order, and whether an exception left the loop early.                     *)
(***************************************************************************)
NoMove == [acquired |-> <<>>, writes |-> <<>>, threw |-> FALSE]

\* The inspection a SpotLightHandle writes through for one snapshot.
SpotEditedInspection(snapshot, handleType) ==
    IF handleType = "Cone" THEN snapshot.coneInspection ELSE snapshot.penumbraInspection

\* A faulty per-snapshot value: clamped against the angles of the dragged
\* handle's own light instead of the snapshot's.
SpotSnapshotValueClampedAtHandle(h, handleType, snapshot, angleDelta) ==
    IF handleType = "Cone"
    THEN conePlugAngle(h, clampHandleAngle(h, handleType,
                                           snapshot.originalConeHandleAngle + angleDelta,
                                           h.m_dragStartData.originalConeHandleAngle,
                                           h.m_dragStartData.originalPenumbraHandleAngle))
    ELSE penumbraPlugAngle(h, clampHandleAngle(h, handleType,
                                               Get(snapshot.originalPenumbraHandleAngle) + angleDelta,
                                               h.m_dragStartData.originalConeHandleAngle,
                                               h.m_dragStartData.originalPenumbraHandleAngle))

\* The plug-space value SpotLightHandle::handleDragMove writes for one snapshot.
SpotSnapshotValue(h, handleType, snapshot, angleDelta) ==
    IF handleType = "Cone"
    THEN conePlugAngle(h, clampHandleAngle(h, handleType,
                                           snapshot.originalConeHandleAngle + angleDelta,
                                           snapshot.originalConeHandleAngle,
                                           snapshot.originalPenumbraHandleAngle))
    ELSE penumbraPlugAngle(h, clampHandleAngle(h, handleType,
                                               Get(snapshot.originalPenumbraHandleAngle) + angleDelta,
                                               snapshot.originalConeHandleAngle,
                                               snapshot.originalPenumbraHandleAngle))

\* The delta of one drag move: the candidate clamped against the dragged
\* handle's own drag-start angles, minus its start angle.
SpotAngleDelta(h, handleType, newHandleAngle) ==
    clampHandleAngle(h, handleType, newHandleAngle,
                     h.m_dragStartData.originalConeHandleAngle,
                     h.m_dragStartData.originalPenumbraHandleAngle)
    - (IF handleType = "Cone"
       THEN h.m_dragStartData.originalConeHandleAngle
       ELSE Get(h.m_dragStartData.originalPenumbraHandleAngle))

\* runTimeCast<FloatPlug>( activeValuePlug( acquireEdit() ) ) of handleDragMove
\* succeeds: an edit made in the edit scope is a tweak built from the float
\* value, a source plug has the type its node gave it.
AcquiredPlugIsFloat(inspection) ==
    editScope \/ lights[inspection.path].shader # "spotCustom"

\* SpotLightHandle::handleDragMove.
SpotLightHandleDragMove(h, handleType, hit, newHandleAngle) ==
    IF h.m_inspections = <<>> \/ ~SpotLightHandleAllInspectionsEnabled(h, handleType)
    THEN NoMove
    ELSE IF ~hit
    THEN NoMove
    ELSE IF clampHandleAngleThrows(h, handleType, h.m_dragStartData.originalPenumbraHandleAngle)
            \/ (handleType = "Penumbra" /\ h.m_dragStartData.originalPenumbraHandleAngle = None)
    THEN [NoMove EXCEPT !.threw = TRUE]
    ELSE LET angleDelta == SpotAngleDelta(h, handleType, newHandleAngle)
             n == Len(h.m_inspections)
             throwsAt(i) ==
                 \/ ~AcquiredPlugIsFloat(Get(SpotEditedInspection(h.m_inspections[i], handleType)))
                 \/ clampHandleAngleThrows(h, handleType,
                                           h.m_inspections[i].originalPenumbraHandleAngle)
             stop == IF \E i \in 1..n : throwsAt(i)
                     THEN CHOOSE i \in 1..n : throwsAt(i) /\ \A j \in 1..(i - 1) : ~throwsAt(j)
                     ELSE n + 1
         IN  [acquired |-> [i \in 1..Min(stop, n) |->
                               Get(SpotEditedInspection(h.m_inspections[i], handleType))],
              writes |-> [i \in 1..(stop - 1) |->
                            [path |-> Get(SpotEditedInspection(h.m_inspections[i], handleType)).path,
                             parameter |-> Get(SpotEditedInspection(h.m_inspections[i], handleType)).parameter,
                             value |-> SpotSnapshotValue(h, handleType, h.m_inspections[i], angleDelta)]],
              threw |-> stop <= n]

\* A multiplier of WidthHeightHandle::handleDragMove as a fraction with a
\* positive denominator: ( delta * 2 ) / ( nonZero * m_scale ) + 1, m_scale = 1.
nonZero(v) == IF v = 0 THEN OneUnit ELSE v

\* A faulty multiplier: the "+ 1.f" is left out.
MultiplierOfOffset(delta, nonZeroDimension) ==
    IF nonZeroDimension > 0
    THEN [num |-> delta * 2, den |-> nonZeroDimension]
    ELSE [num |-> 0 - (delta * 2), den |-> 0 - nonZeroDimension]

Multiplier(delta, nonZeroDimension) ==
    IF nonZeroDimension > 0
    THEN [num |-> delta * 2 + nonZeroDimension, den |-> nonZeroDimension]
    ELSE [num |-> 0 - (delta * 2 + nonZeroDimension), den |-> 0 - nonZeroDimension]

UnitMultiplier == [num |-> 1, den |-> 1]

\* A faulty clamp: the multiplier is kept as computed.
KeepMultiplier(m) == m

\* std::max( mult, 0.f ).
ClampMultiplier(m) == IF m.num < 0 THEN [num |-> 0, den |-> 1] ELSE m

\* nonZero dimension * multiplier.
Scaled(v, m) == (v * m.num) \div m.den

\* Faulty multipliers: the Control modifier is ignored.
WidthHeightMultipliersUnlocked(h, id, dx, dy, control) ==
    LET handleType == WidthHeightHandleConfig(id).m_handleType
        nonZeroWidth == nonZero(h.m_dragStartInfo.originalWidth)
        nonZeroHeight == nonZero(h.m_dragStartInfo.originalHeight)
    IN  [xMult |-> ClampMultiplier(IF "Width" \in handleType
                                   THEN Multiplier(dx, nonZeroWidth) ELSE UnitMultiplier),
         yMult |-> ClampMultiplier(IF "Height" \in handleType
                                   THEN Multiplier(dy, nonZeroHeight) ELSE UnitMultiplier)]

\* The two multipliers of one move after the aspect lock and the clamp.
WidthHeightMultipliers(h, id, dx, dy, control) ==
    LET handleType == WidthHeightHandleConfig(id).m_handleType
        nonZeroWidth == nonZero(h.m_dragStartInfo.originalWidth)
        nonZeroHeight == nonZero(h.m_dragStartInfo.originalHeight)
        x0 == IF "Width" \in handleType THEN Multiplier(dx, nonZeroWidth) ELSE UnitMultiplier
        y0 == IF "Height" \in handleType THEN Multiplier(dy, nonZeroHeight) ELSE UnitMultiplier
        locked == control /\ handleType = {"Width", "Height"}
        widthLeads == h.m_dragStartInfo.originalWidth > h.m_dragStartInfo.originalHeight
    IN  [xMult |-> ClampMultiplier(IF locked /\ ~widthLeads THEN y0 ELSE x0),
         yMult |-> ClampMultiplier(IF locked /\ widthLeads THEN x0 ELSE y0)]

\* Faulty writes of one snapshot: both dimensions whatever the handle type.
WidthHeightSnapshotWritesBoth(handleType, snapshot, m) ==
    (IF snapshot.widthInspection # None /\ Get(snapshot.widthInspection).editable
     THEN <<[path |-> Get(snapshot.widthInspection).path,
             parameter |-> Get(snapshot.widthInspection).parameter,
             value |-> Scaled(nonZero(snapshot.originalWidth), m.xMult)]>>
     ELSE <<>>)
    \o
    (IF snapshot.heightInspection # None /\ Get(snapshot.heightInspection).editable
     THEN <<[path |-> Get(snapshot.heightInspection).path,
             parameter |-> Get(snapshot.heightInspection).parameter,
             value |-> Scaled(nonZero(snapshot.originalHeight), m.yMult)]>>
     ELSE <<>>)

\* The writes of one snapshot: width first, then height.
WidthHeightSnapshotWrites(handleType, snapshot, m) ==
    (IF "Width" \in handleType /\ snapshot.widthInspection # None /\ Get(snapshot.widthInspection).editable
     THEN <<[path |-> Get(snapshot.widthInspection).path,
             parameter |-> Get(snapshot.widthInspection).parameter,
             value |-> Scaled(nonZero(snapshot.originalWidth), m.xMult)]>>
     ELSE <<>>)
    \o
    (IF "Height" \in handleType /\ snapshot.heightInspection # None /\ Get(snapshot.heightInspection).editable
     THEN <<[path |-> Get(snapshot.heightInspection).path,
             parameter |-> Get(snapshot.heightInspection).parameter,
             value |-> Scaled(nonZero(snapshot.originalHeight), m.yMult)]>>
     ELSE <<>>)

RECURSIVE WidthHeightWrites(_, _, _)
WidthHeightWrites(handleType, snapshots, m) ==
    IF snapshots = <<>>
    THEN <<>>
    ELSE WidthHeightSnapshotWrites(handleType, Head(snapshots), m)
         \o WidthHeightWrites(handleType, Tail(snapshots), m)

\* The inspections whose edit a WidthHeightHandle move acquires.
RECURSIVE WidthHeightAcquired(_, _)
WidthHeightAcquired(handleType, snapshots) ==
    IF snapshots = <<>>
    THEN <<>>
    ELSE LET s == Head(snapshots)
         IN  (IF "Width" \in handleType /\ s.widthInspection # None /\ Get(s.widthInspection).editable
              THEN <<Get(s.widthInspection)>> ELSE <<>>)
             \o (IF "Height" \in handleType /\ s.heightInspection # None /\ Get(s.heightInspection).editable
                 THEN <<Get(s.heightInspection)>> ELSE <<>>)
             \o WidthHeightAcquired(handleType, Tail(snapshots))

\* WidthHeightHandle::handleDragMove.
WidthHeightHandleDragMove(h, id, dx, dy, control) ==
    IF h.m_inspections = <<>> \/ ~WidthHeightHandleAllInspectionsEnabled(h, id)
    THEN NoMove
    ELSE [acquired |-> WidthHeightAcquired(WidthHeightHandleConfig(id).m_handleType, h.m_inspections),
          writes |-> WidthHeightWrites(WidthHeightHandleConfig(id).m_handleType, h.m_inspections,
                                       WidthHeightMultipliers(h, id, dx, dy, control)),
          threw |-> FALSE]

(***************************************************************************)
(* LightTool.                                                               *)
(***************************************************************************)
\* fmt::ptr( this ) for the one tool of the model.
ThisTool == "0x7f00"

\* fmt's decimal rendering of an unsigned integer.
RECURSIVE Digits(_)
Digits(n) == IF n < 10 THEN <<n>> ELSE Append(Digits(n \div 10), n % 10)

\* LightTool::undoMergeGroup: "LightTool", the tool's address and the id,
\* concatenated.
undoMergeGroup == <<"LightTool", ThisTool>> \o Digits(m_mergeGroupId)

\* LightTool::selection(): the selected paths of the view's context, read
\* anew on every call.
selection == selectedPaths

\* A PathMatcher's iteration order over a set of paths.
SelectionSeq(sel) == SelectSeq(PathOrder, LAMBDA p : p \in sel)

RECURSIVE SpotLightHandleAddDragInspections(_, _)
SpotLightHandleAddDragInspections(h, paths) ==
    IF paths = <<>>
    THEN h
    ELSE SpotLightHandleAddDragInspections(SpotLightHandleAddDragInspection(h, Head(paths)), Tail(paths))

RECURSIVE WidthHeightHandleAddDragInspections(_, _)
WidthHeightHandleAddDragInspections(h, paths) ==
    IF paths = <<>>
    THEN h
    ELSE WidthHeightHandleAddDragInspections(WidthHeightHandleAddDragInspection(h, Head(paths)), Tail(paths))

\* A faulty loop body: visibility is asked at the last-selected path alone.
SpotLightHandlePassAtLastSelected(h, handleType) ==
    LET updated == SpotLightHandleUpdate(h, Get(lastSelectedPath))
        handleVisible == SpotLightHandleVisible(updated, handleType, Get(lastSelectedPath))
        handleEnabled == \A p \in selection : SpotLightHandleEnabled(updated)
        cleared == [updated EXCEPT !.enabled = handleEnabled,
                                   !.visible = handleVisible,
                                   !.m_inspections = <<>>]
    IN  IF handleVisible
        THEN SpotLightHandleAddDragInspections(cleared, SelectionSeq(selection))
        ELSE cleared

\* The body of updateHandleInspections' loop for a SpotLightHandle: update,
\* visibility and enabled state over the selection, clearDragInspections,
\* then one snapshot per selected path when visible.
SpotLightHandlePass(h, handleType) ==
    LET updated == SpotLightHandleUpdate(h, Get(lastSelectedPath))
        handleVisible == \A p \in selection : SpotLightHandleVisible(updated, handleType, p)
        handleEnabled == \A p \in selection : SpotLightHandleEnabled(updated)
        cleared == [updated EXCEPT !.enabled = handleEnabled,
                                   !.visible = handleVisible,
                                   !.m_inspections = <<>>]
    IN  IF handleVisible
        THEN SpotLightHandleAddDragInspections(cleared, SelectionSeq(selection))
        ELSE cleared

\* The same for a WidthHeightHandle.
WidthHeightHandlePass(h, id) ==
    LET updated == WidthHeightHandleUpdate(h, id, Get(lastSelectedPath))
        handleVisible == \A p \in selection : WidthHeightHandleVisible(updated, p)
        handleEnabled == \A p \in selection : WidthHeightHandleEnabled(updated)
        cleared == [updated EXCEPT !.enabled = handleEnabled,
                                   !.visible = handleVisible,
                                   !.m_inspections = <<>>]
    IN  IF handleVisible
        THEN WidthHeightHandleAddDragInspections(cleared, SelectionSeq(selection))
        ELSE cleared

\* LightTool::updateHandleInspections.  `pass` tells whether the call got
\* past its early returns (dragging, no input scene).
updateHandleInspections ==
    IF m_dragging \/ ~sceneInput
    THEN [spot |-> spot, wh |-> wh, pass |-> FALSE]
    ELSE IF selection = {}
    THEN [spot |-> [t \in SpotHandles |-> [spot[t] EXCEPT !.visible = FALSE]],
          wh |-> [t \in WHHandles |-> [wh[t] EXCEPT !.visible = FALSE]],
          pass |-> TRUE]
    ELSE [spot |-> [t \in SpotHandles |-> SpotLightHandlePass(spot[t], t)],
          wh |-> [t \in WHHandles |-> WidthHeightHandlePass(wh[t], t)],
          pass |-> TRUE]

\* A faulty updateHandleTransforms: the handles follow the first selected
\* path of the selection's iteration order.
updateHandleTransformsAtFirstSelected ==
    IF ~sceneInput \/ selection = {} \/ ~PathIsValid(Get(lastSelectedPath))
    THEN None
    ELSE Some(SelectionSeq(selection)[1])

\* LightTool::updateHandleTransforms: the location whose full transform
\* m_handles is given, none on the early returns.
updateHandleTransforms ==
    IF ~sceneInput \/ selection = {} \/ ~PathIsValid(Get(lastSelectedPath))
    THEN None
    ELSE lastSelectedPath

(***************************************************************************)
(* The scenes the tool is run on.  A spot light's plugs are given by its    *)
(* handle-space angles and stored in plug space.                            *)
(***************************************************************************)
NodeLight(shader) == [shader |-> shader, node |-> TRUE, locked |-> FALSE]

LockedLight(shader) == [shader |-> shader, node |-> TRUE, locked |-> TRUE]

FileLight(shader) == [shader |-> shader, node |-> FALSE, locked |-> FALSE]

\* Plug values of a spot light whose handles stand at the given angles.
SpotValues(shader, coneHandleAngle, penumbraHandleAngle) ==
    [q \in {"coneAngle", "penumbraAngle"} |->
        IF q = "coneAngle"
        THEN IF Metadata(shader, "coneAngleType") = Some("half")
             THEN coneHandleAngle ELSE coneHandleAngle * 2
        ELSE IF Metadata(shader, "penumbraType") = Some(g_absolutePenumbraType)
             THEN penumbraHandleAngle * 2 ELSE penumbraHandleAngle]

QuadValues(width, height) == [q \in {"width", "height"} |-> IF q = "width" THEN width ELSE height]

DiskValues(radius) == [q \in {"radius"} |-> radius]

NoValues == [q \in {} |-> 0]

Scene(lightA, valuesA, lightB, valuesB, scope) ==
    [lights |-> [p \in Paths |-> IF p = "lightA" THEN lightA ELSE lightB],
     values |-> [p \in Paths |-> IF p = "lightA" THEN valuesA ELSE valuesB],
     editScope |-> scope]

\* An editable and a locked outset spot light.
OutsetAndLockedScene ==
    Scene(NodeLight("spotOutset"), SpotValues("spotOutset", 45, 45),
          LockedLight("spotOutset"), SpotValues("spotOutset", 45, 45), FALSE)

\* A spot light read from a file, editable only through the edit scope, and
\* a quad light.
FileSpotAndQuadScene ==
    Scene(FileLight("spotInset"), SpotValues("spotInset", 90, 45),
          NodeLight("quad"), QuadValues(20, 10), TRUE)

\* A spot light without penumbraType metadata whose penumbra plug holds 135
\* degrees, and a disk light.
WidePenumbraAndDiskScene ==
    Scene(NodeLight("spotPlain"), SpotValues("spotPlain", 90, 135),
          NodeLight("disk"), DiskValues(10), FALSE)

\* A spot light with an absolute penumbra, and a selected path that is not
\* in the scene.
AbsoluteAndMissingScene ==
    Scene(NodeLight("spotAbsolute"), SpotValues("spotAbsolute", 45, 90),
          FileLight(MissingLocation), NoValues, FALSE)

\* A locked quad light and a location without a light.
LockedQuadAndMeshScene ==
    Scene(LockedLight("quad"), QuadValues(10, 20),
          NodeLight("mesh"), NoValues, TRUE)

\* An inset spot light and a spot light whose angle plugs are not FloatPlugs,
\* both edited at their source.
InsetAndCustomScene ==
    Scene(NodeLight("spotInset"), SpotValues("spotInset", 45, 45),
          NodeLight("spotCustom"), SpotValues("spotCustom", 45, 45), FALSE)

\* Two inset spot lights that can be edited together.
TwoInsetScene ==
    Scene(NodeLight("spotInset"), SpotValues("spotInset", 45, 45),
          NodeLight("spotInset"), SpotValues("spotInset", 90, 45), FALSE)

\* Two spot lights without a penumbra parameter, the second registered with
\* penumbraType "outset"; both cones stand at 45 degrees.
ConeOnlyScene ==
    Scene(NodeLight("spotConeOnly"), [q \in {"coneAngle"} |-> 90],
          NodeLight("spotConeOnlyOutset"), [q \in {"coneAngle"} |-> 90], FALSE)

Scenes ==
    {OutsetAndLockedScene, FileSpotAndQuadScene, WidePenumbraAndDiskScene,
     AbsoluteAndMissingScene, LockedQuadAndMeshScene}

\* The scenes of the back-to-back drags.
SpotDragScenes == {TwoInsetScene}

\* The scenes the SpotLightTool is run on.
SpotLightToolScenes == {OutsetAndLockedScene, FileSpotAndQuadScene, InsetAndCustomScene}

\* The inputs of the events.
SetAngles == {90}

Scalings == {0, 2}

CandidateAngles == {0 - 45, 0, 45, 90, 135}

DragOffsets == {0 - 10, 0, 5}

\* What a drag event gives a SpotLightHandle: the angle under the pointer, or
\* no intersection with the click sphere.
SpotDragEvents ==
    {[hit |-> TRUE, newHandleAngle |-> a] : a \in CandidateAngles}
    \cup {[hit |-> FALSE, newHandleAngle |-> 0]}

\* What a drag event gives a WidthHeightHandle: the position along the axis
\* of an edge handle's LinearDrag, or the two coordinates of a corner
\* handle's PlanarDrag, and the Control modifier.
WidthHeightDragEvents(id) ==
    {[dx |-> IF "Width" \in WidthHeightHandleConfig(id).m_handleType THEN x ELSE 0,
      dy |-> IF "Height" \in WidthHeightHandleConfig(id).m_handleType THEN y ELSE 0,
      control |-> c] :
        x \in DragOffsets, y \in DragOffsets, c \in BOOLEAN}

Selections ==
    {[paths |-> {}, last |-> None]}
    \cup UNION {{[paths |-> ps, last |-> Some(l)] : l \in ps} : ps \in (SUBSET Paths) \ {{}}}

ContextNames == {"ui:scene:selectedPaths", "frame", "ui:other"}

DirtiedPlugs == {"childNames", "editScope", "transform", "visualiserScale", "attributes", "other"}

(***************************************************************************)
(* Observations.                                                            *)
(***************************************************************************)
Idle(op) ==
    [op |-> op, emitted |-> FALSE, pass |-> FALSE, acquired |-> <<>>, writes |-> <<>>,
     threw |-> FALSE, returned |-> None, input |-> None, group |-> None,
     priorityPaths |-> None, transform |-> None]

NoDrag ==
    [selection |-> {}, groups |-> {}, pastGroups |-> {}, preValues |-> None,
     preEdits |-> {}, preUndo |-> 0]

\* Outside a drag nothing is remembered of the last one but its merge groups.
Forget(d) ==
    IF m_dragging
    THEN d
    ELSE [NoDrag EXCEPT !.pastGroups = d.pastGroups]

\* The acquireEdit calls of a step, each with the inspection's editable flag
\* and whether an UndoScope on a script was open when it was made.
Acquisitions(inspections, scopeOpen) ==
    [i \in 1..Len(inspections) |->
        [path |-> inspections[i].path, parameter |-> inspections[i].parameter,
         editable |-> inspections[i].editable, scopeOpen |-> scopeOpen]]

(***************************************************************************)
(* SpotLightTool (src/src/GafferSceneUI/SpotLightTool.cpp): one AngleHandle *)
(* that scales the cone angle of every selected spot light.                 *)
(***************************************************************************)
\* SpotLightTool::spotLightParameterKey: attribute.string() + shader.
spotLightParameterKey(attribute, shader) == attribute \o shader

\* The registrations made at start-up: each spot light shader is registered
\* with its cone angle parameter.
StartUpSpotLights ==
    [key \in {spotLightParameterKey(LightAttribute, sh) :
                sh \in {"spotInset", "spotOutset", "spotAbsolute", "spotPlain", "spotCustom"}}
        |-> "coneAngle"]

\* The calls of registerSpotLight that made those registrations, a history
\* the code does not keep.
StartUpPairs ==
    {[shaderAttribute |-> LightAttribute, shaderName |-> sh, coneAngleParameter |-> "coneAngle"] :
        sh \in {"spotInset", "spotOutset", "spotAbsolute", "spotPlain", "spotCustom"}}

\* The static map SpotLightTool::g_spotLightParameterMap, kept beside the
\* tool's members.
g_spotLightParameterMap == slt.g_spotLightParameterMap

\* A faulty registration: insert_or_assign, a later registration of a key
\* replaces the parameter.
RegisteredOverwriting(map, key, parameter) ==
    [k \in DOMAIN map \cup {key} |-> IF k = key THEN parameter ELSE map[k]]

\* g_spotLightParameterMap.insert( { key, parameter } ): the map afterwards.
Registered(map, key, parameter) ==
    IF key \in DOMAIN map
    THEN map
    ELSE [k \in DOMAIN map \cup {key} |-> IF k = key THEN parameter ELSE map[k]]

\* SpotLightTool::spotLightParameter( scene, path ).
spotLightParameter(path) ==
    IF lights[path].shader \in {"mesh", MissingLocation}
    THEN None
    ELSE IF spotLightParameterKey(LightAttribute, lights[path].shader) \in DOMAIN g_spotLightParameterMap
    THEN Some([attribute |-> LightAttribute,
               parameter |-> g_spotLightParameterMap[spotLightParameterKey(LightAttribute, lights[path].shader)]])
    ELSE None

\* The constructor.  sourceOrder lists the source plugs by address, which the
\* sort of updateSelection compares, each as the set of the paths whose
\* light it drives.
SpotLightToolInit ==
    [active |-> FALSE,
     m_selection |-> <<>>,
     m_handleDirty |-> TRUE,
     m_selectionDirty |-> TRUE,
     m_dragging |-> FALSE,
     m_mergeGroupId |-> 0,
     m_drag |-> <<>>,
     handleVisible |-> FALSE,
     sourceOrder |-> [k \in 1..Len(PathOrder) |-> {PathOrder[k]}],
     g_spotLightParameterMap |-> StartUpSpotLights,
     registeredPairs |-> StartUpPairs]

\* sourceOrNull as an address: 0 for null, else the rank of the source plug.
sourceOrNull(t, item) ==
    IF item.inspection = None
    THEN 0
    ELSE IF ~Get(item.inspection).editable \/ ~Get(item.inspection).source
    THEN 0
    ELSE CHOOSE k \in 1..Len(t.sourceOrder) : item.path \in t.sourceOrder[k]

\* The comparison of updateSelection's std::sort.
SelectionLess(t, a, b) ==
    IF sourceOrNull(t, a) < sourceOrNull(t, b) THEN TRUE
    ELSE IF sourceOrNull(t, b) < sourceOrNull(t, a) THEN FALSE
    ELSE (a.path = Get(lastSelectedPath)) /\ (b.path # Get(lastSelectedPath))

\* std::sort: an arrangement of the items in which no item is less than one
\* before it.
SortSelection(t, items) ==
    LET n == Len(items)
        perms == {f \in [1..n -> 1..n] : \A i, j \in 1..n : i # j => f[i] # f[j]}
        f == CHOOSE g \in perms :
                \A i, j \in 1..n : i < j => ~SelectionLess(t, items[g[j]], items[g[i]])
    IN  [i \in 1..n |-> items[f[i]]]

\* A faulty std::unique: the predicate is "same source", null included.
RECURSIVE UniqueSelectionNullsToo(_, _)
UniqueSelectionNullsToo(t, items) ==
    IF Len(items) <= 1
    THEN items
    ELSE LET rest == UniqueSelectionNullsToo(t, Tail(items))
         IN  IF sourceOrNull(t, items[1]) = sourceOrNull(t, rest[1])
             THEN <<items[1]>> \o Tail(rest)
             ELSE <<items[1]>> \o rest

\* std::unique with the predicate "same non-null source".
RECURSIVE UniqueSelection(_, _)
UniqueSelection(t, items) ==
    IF Len(items) <= 1
    THEN items
    ELSE LET rest == UniqueSelection(t, Tail(items))
         IN  IF sourceOrNull(t, items[1]) # 0 /\ sourceOrNull(t, items[1]) = sourceOrNull(t, rest[1])
             THEN <<items[1]>> \o Tail(rest)
             ELSE <<items[1]>> \o rest

\* The swap of the last-selected item with the back of the selection.
LastToBack(items) ==
    IF \E k \in 1..Len(items) : items[k].path = Get(lastSelectedPath)
    THEN LET k == CHOOSE i \in 1..Len(items) :
                     /\ items[i].path = Get(lastSelectedPath)
                     /\ \A j \in 1..(i - 1) : items[j].path # Get(lastSelectedPath)
         IN  [i \in 1..Len(items) |->
                IF i = k THEN items[Len(items)]
                ELSE IF i = Len(items) THEN items[k]
                ELSE items[i]]
    ELSE items

\* A faulty updateSelection: the selection is recomputed during a drag too.
updateSelectionWhileDragging(t) ==
    IF ~t.m_selectionDirty
    THEN t
    ELSE IF ~t.active \/ ~sceneInput \/ selectedPaths = {}
    THEN [t EXCEPT !.m_selection = <<>>, !.m_selectionDirty = FALSE]
    ELSE LET paths == SelectionSeq(selectedPaths)
             items == [i \in 1..Len(paths) |->
                          [path |-> paths[i],
                           inspection |->
                               IF spotLightParameter(paths[i]) # None
                               THEN Inspect(ParameterInspector(Get(spotLightParameter(paths[i])).attribute,
                                                               Get(spotLightParameter(paths[i])).parameter),
                                            paths[i])
                               ELSE None]]
         IN  [t EXCEPT !.m_selection = LastToBack(UniqueSelection(t, SortSelection(t, items))),
                       !.m_selectionDirty = FALSE]

\* SpotLightTool::updateSelection.
updateSelection(t) ==
    IF ~t.m_selectionDirty \/ t.m_dragging
    THEN t
    ELSE IF ~t.active \/ ~sceneInput \/ selectedPaths = {}
    THEN [t EXCEPT !.m_selection = <<>>, !.m_selectionDirty = FALSE]
    ELSE LET paths == SelectionSeq(selectedPaths)
             items == [i \in 1..Len(paths) |->
                          [path |-> paths[i],
                           inspection |->
                               IF spotLightParameter(paths[i]) # None
                               THEN Inspect(ParameterInspector(Get(spotLightParameter(paths[i])).attribute,
                                                               Get(spotLightParameter(paths[i])).parameter),
                                            paths[i])
                               ELSE None]]
         IN  [t EXCEPT !.m_selection = LastToBack(UniqueSelection(t, SortSelection(t, items))),
                       !.m_selectionDirty = FALSE]

\* A faulty selectionEditable: an item without inspection is skipped.
selectionEditableSkippingMissing(t) ==
    /\ t.m_selection # <<>>
    /\ \A i \in 1..Len(t.m_selection) :
          t.m_selection[i].inspection # None => Get(t.m_selection[i].inspection).editable

\* SpotLightTool::selectionEditable on an up-to-date selection
\* (Angle::canApply for every item).
selectionEditable(t) ==
    /\ t.m_selection # <<>>
    /\ \A i \in 1..Len(t.m_selection) :
          /\ t.m_selection[i].inspection # None
          /\ Get(t.m_selection[i].inspection).editable

\* SpotLightTool::undoMergeGroup.
sltUndoMergeGroup(t) == <<"SpotLightTool", ThisTool>> \o Digits(t.m_mergeGroupId)

(***************************************************************************)
(* The state after construction: every dirty flag set, no drag, merge id 0, *)
(* the handles hidden; the tool inactive and the view without selection.    *)
(***************************************************************************)
Constructed(scenes) ==
    /\ \E sc \in scenes :
          /\ lights = sc.lights
          /\ values = sc.values
          /\ editScope = sc.editScope
    /\ edits = {}
    /\ undoStack = <<>>
    /\ selectedPaths = {}
    /\ lastSelectedPath = None
    /\ sceneInput \in BOOLEAN
    /\ active = FALSE
    /\ m_dragging = FALSE
    /\ m_mergeGroupId = InitialMergeGroupId
    /\ m_scriptNode = None
    /\ m_handleInspectionsDirty = TRUE
    /\ m_handleTransformsDirty = TRUE
    /\ m_priorityPathsDirty = TRUE
    /\ handlesVisible = FALSE
    /\ spot = [t \in SpotHandles |-> SpotLightHandleInit]
    /\ wh = [t \in WHHandles |-> WidthHeightHandleInit]
    /\ dragHandle = None
    /\ step = Idle("init")
    /\ drag = NoDrag

Init == Constructed(Scenes) /\ slt = SpotLightToolInit

(***************************************************************************)
(* Events from the view and the scene.                                      *)
(***************************************************************************)
\* LightTool::contextChanged( name ).  A change of the selection variables
\* arrives with the new selection already stored in the context.
ContextChanged ==
    \E name \in ContextNames, sel \in Selections :
        /\ IF name = "ui:scene:selectedPaths"
           THEN selectedPaths' = sel.paths /\ lastSelectedPath' = sel.last
           ELSE UNCHANGED <<selectedPaths, lastSelectedPath>>
        /\ IF name = "ui:scene:selectedPaths" \/ name = "frame"
           THEN /\ m_handleInspectionsDirty' = TRUE
                /\ m_handleTransformsDirty' = TRUE
                /\ m_priorityPathsDirty' = TRUE
                /\ step' = [Idle("event") EXCEPT !.emitted = TRUE]
           ELSE /\ UNCHANGED <<m_handleInspectionsDirty, m_handleTransformsDirty, m_priorityPathsDirty>>
                /\ step' = Idle("event")
        /\ UNCHANGED <<slt, worldVars, sceneInput, active, m_dragging, m_mergeGroupId, m_scriptNode,
                       handlesVisible, spot, wh, dragHandle>>
        /\ drag' = Forget(drag)

\* A faulty plugDirtied: the scene's attributes are handled like its
\* childNames as well.
plugDirtiedAttributesAsChildNames(plug, input) ==
    /\ m_handleInspectionsDirty' =
          (m_handleInspectionsDirty
           \/ plug \in {"active", "childNames", "editScope", "visualiserScale", "frustumScale",
                        "attributes"})
    /\ m_priorityPathsDirty' =
          (m_priorityPathsDirty \/ plug \in {"active", "childNames", "editScope", "attributes"})
    /\ m_handleTransformsDirty' = (m_handleTransformsDirty \/ plug \in {"transform", "attributes"})
    /\ handlesVisible' = (IF plug = "active" /\ ~active' THEN FALSE ELSE handlesVisible)
    /\ step' = [Idle("event") EXCEPT
                    !.emitted = (plug \in {"active", "childNames", "editScope", "attributes"}
                                 /\ ~m_dragging),
                    !.input = input]
    /\ UNCHANGED <<slt, worldVars, viewVars, m_dragging, m_mergeGroupId, m_scriptNode,
                   spot, wh, dragHandle>>
    /\ drag' = Forget(drag)

\* LightTool::plugDirtied( plug ), the active plug holding its new value.
\* `input` is what the step shows of the plug.
plugDirtied(plug, input) ==
    /\ m_handleInspectionsDirty' =
          (m_handleInspectionsDirty
           \/ plug \in {"active", "childNames", "editScope", "visualiserScale", "frustumScale",
                        "attributes"})
    /\ m_priorityPathsDirty' = (m_priorityPathsDirty \/ plug \in {"active", "childNames", "editScope"})
    /\ m_handleTransformsDirty' = (m_handleTransformsDirty \/ plug \in {"transform", "attributes"})
    /\ handlesVisible' = (IF plug = "active" /\ ~active' THEN FALSE ELSE handlesVisible)
    /\ step' = [Idle("event") EXCEPT
                    !.emitted = (plug \in {"active", "childNames", "editScope"} /\ ~m_dragging),
                    !.input = input]
    /\ UNCHANGED <<slt, worldVars, viewVars, m_dragging, m_mergeGroupId, m_scriptNode,
                   spot, wh, dragHandle>>
    /\ drag' = Forget(drag)

\* LightTool::plugDirtied for a plug other than the active plug.
PlugDirtied ==
    \E plug \in DirtiedPlugs :
        /\ active' = active
        /\ plugDirtied(plug, None)

\* The active plug is set: plugDirtied( activePlug() ) connects or
\* disconnects preRender and hides the handles on deactivation.
SetActive ==
    \E value \in BOOLEAN :
        /\ active' = value
        /\ plugDirtied("active", None)

\* LightTool::metadataChanged( key ).
MetadataChanged ==
    \E key \in {"readOnly", "other"} :
        /\ m_handleInspectionsDirty' = (m_handleInspectionsDirty \/ key = "readOnly")
        /\ step' = Idle("event")
        /\ UNCHANGED <<slt, worldVars, viewVars, active, m_dragging, m_mergeGroupId, m_scriptNode,
                       m_handleTransformsDirty, m_priorityPathsDirty, handlesVisible,
                       spot, wh, dragHandle>>
        /\ drag' = Forget(drag)

\* A faulty dirtyHandleTransforms: the flag is cleared.
CleanHandleTransforms ==
    /\ m_handleTransformsDirty' = FALSE
    /\ step' = Idle("event")
    /\ UNCHANGED <<slt, worldVars, viewVars, active, m_dragging, m_mergeGroupId, m_scriptNode,
                   m_handleInspectionsDirty, m_priorityPathsDirty, handlesVisible,
                   spot, wh, dragHandle>>
    /\ drag' = Forget(drag)

\* LightTool::dirtyHandleTransforms.
DirtyHandleTransforms ==
    /\ m_handleTransformsDirty' = TRUE
    /\ step' = Idle("event")
    /\ UNCHANGED <<slt, worldVars, viewVars, active, m_dragging, m_mergeGroupId, m_scriptNode,
                   m_handleInspectionsDirty, m_priorityPathsDirty, handlesVisible,
                   spot, wh, dragHandle>>
    /\ drag' = Forget(drag)

\* preRender without its tests of m_dragging.
PreRenderWhileDragging ==
    /\ active
    /\ m_priorityPathsDirty' = FALSE
    /\ IF m_handleInspectionsDirty
       THEN LET u == updateHandleInspections
            IN  /\ spot' = u.spot
                /\ wh' = u.wh
                /\ m_handleInspectionsDirty' = FALSE
                /\ handlesVisible' =
                      (handlesVisible \/ (\E t \in SpotHandles : u.spot[t].visible)
                                      \/ (\E t \in WHHandles : u.wh[t].visible))
       ELSE UNCHANGED <<spot, wh, m_handleInspectionsDirty, handlesVisible>>
    /\ m_handleTransformsDirty' = FALSE
    /\ step' = [Idle("preRender") EXCEPT
                    !.priorityPaths = IF m_priorityPathsDirty
                                      THEN Some(selection) ELSE None,
                    !.pass = (m_handleInspectionsDirty /\ updateHandleInspections.pass),
                    !.transform = IF m_handleTransformsDirty THEN updateHandleTransforms ELSE None]
    /\ UNCHANGED <<slt, worldVars, viewVars, active, m_dragging, m_mergeGroupId, m_scriptNode,
                   dragHandle>>
    /\ drag' = Forget(drag)

\* LightTool::preRender, connected while the tool is active.
PreRender ==
    /\ active
    /\ m_priorityPathsDirty' = (m_priorityPathsDirty /\ m_dragging)
    /\ IF m_handleInspectionsDirty /\ ~m_dragging
       THEN LET u == updateHandleInspections
            IN  /\ spot' = u.spot
                /\ wh' = u.wh
                /\ m_handleInspectionsDirty' = FALSE
                /\ handlesVisible' =
                      (handlesVisible \/ (\E t \in SpotHandles : u.spot[t].visible)
                                      \/ (\E t \in WHHandles : u.wh[t].visible))
       ELSE UNCHANGED <<spot, wh, m_handleInspectionsDirty, handlesVisible>>
    /\ m_handleTransformsDirty' = FALSE
    /\ step' = [Idle("preRender") EXCEPT
                    !.priorityPaths = IF ~m_dragging /\ m_priorityPathsDirty
                                      THEN Some(selection) ELSE None,
                    !.pass = (m_handleInspectionsDirty /\ ~m_dragging /\ updateHandleInspections.pass),
                    !.transform = IF m_handleTransformsDirty THEN updateHandleTransforms ELSE None]
    /\ UNCHANGED <<slt, worldVars, viewVars, active, m_dragging, m_mergeGroupId, m_scriptNode,
                   dragHandle>>
    /\ drag' = Forget(drag)

(***************************************************************************)
(* Drags.  The viewport starts a drag on a handle it draws, sends moves to  *)
(* that handle and ends the drag on it.                                     *)
(***************************************************************************)
\* handle->inspectors() of the dragged gadget.
HandleInspectors(id) ==
    IF id \in SpotHandles
    THEN SpotLightHandleInspectors(spot[id], id)
    ELSE WidthHeightHandleInspectors(wh[id])

HandleIsVisible(id) == IF id \in SpotHandles THEN spot[id].visible ELSE wh[id].visible

\* The values m_scriptNode may hold after LightTool::dragBegin: the script
\* of the source of the first inspector's inspection at the first selected
\* path, else what it held.  Dereferencing begin() of an empty selection or a
\* null inspector is undefined: either outcome may result.
ScriptNodeAfterDragBegin(id) ==
    LET inspectors == HandleInspectors(id)
    IN  IF selection = {} \/ inspectors[1] = None
        THEN {m_scriptNode, Some(TheScript)}
        ELSE LET inspection == Inspect(Get(inspectors[1]), SelectionSeq(selection)[1])
             IN  IF inspection # None /\ Get(inspection).source
                 THEN {Some(TheScript)}
                 ELSE {m_scriptNode}

\* LightTool::dragBegin followed by the handle's own dragBegin.
DragBeginWithin(limit) ==
    \E id \in SpotHandles \cup WHHandles :
        /\ dragHandle = None
        /\ handlesVisible
        /\ HandleIsVisible(id)
        /\ m_mergeGroupId < InitialMergeGroupId + limit
        /\ m_dragging' = TRUE
        /\ m_scriptNode' \in ScriptNodeAfterDragBegin(id)
        /\ IF id \in SpotHandles
           THEN /\ spot' = [spot EXCEPT ![id].m_dragStartData = spotLightHandleAngles(spot[id]),
                                        ![id].m_drag = TRUE]
                /\ UNCHANGED wh
           ELSE /\ wh' = [wh EXCEPT ![id].m_dragStartInfo = handleInspections(wh[id]),
                                    ![id].m_drag = TRUE]
                /\ UNCHANGED spot
        /\ dragHandle' = Some(id)
        /\ step' = Idle("dragBegin")
        /\ drag' = [selection |-> selection, groups |-> {}, pastGroups |-> drag.pastGroups,
                    preValues |-> Some(values), preEdits |-> edits, preUndo |-> Len(undoStack)]
        /\ UNCHANGED <<slt, worldVars, viewVars, active, m_mergeGroupId, m_handleInspectionsDirty,
                       m_handleTransformsDirty, m_priorityPathsDirty, handlesVisible>>

\* LightTool::dragMove around a handle's handleDragMove result `r`: the
\* UndoScope on m_scriptNode with the merge group, the writes, and the
\* dirtying of the scene's attributes that a changed plug causes.
DragMoveWith(r, input) ==
    LET w == ApplyWrites([values |-> values, edits |-> edits, recorded |-> {}, changed |-> FALSE],
                         r.writes, m_scriptNode # None)
    IN  /\ values' = w.values
        /\ edits' = w.edits
        /\ undoStack' = CloseUndoScope(undoStack, undoMergeGroup, w.recorded)
        /\ m_handleInspectionsDirty' = (m_handleInspectionsDirty \/ w.changed)
        /\ m_handleTransformsDirty' = (m_handleTransformsDirty \/ w.changed)
        /\ step' = [Idle("dragMove") EXCEPT
                        !.acquired = Acquisitions(r.acquired, m_scriptNode # None),
                        !.writes = r.writes,
                        !.threw = r.threw,
                        !.returned = IF r.threw THEN None ELSE Some(TRUE),
                        !.input = Some(input),
                        !.group = Some(undoMergeGroup)]
        /\ drag' = [drag EXCEPT !.groups = @ \cup {undoMergeGroup}]
        /\ UNCHANGED <<slt, lights, editScope, viewVars, active, m_dragging, m_mergeGroupId,
                       m_scriptNode, m_priorityPathsDirty, handlesVisible,
                       spot, wh, dragHandle>>

\* A move of a drag on a SpotLightHandle.
DragMoveSpotLightHandle ==
    /\ dragHandle # None
    /\ Get(dragHandle) \in SpotHandles
    /\ \E e \in SpotDragEvents :
          DragMoveWith(SpotLightHandleDragMove(spot[Get(dragHandle)], Get(dragHandle),
                                               e.hit, e.newHandleAngle), e)

\* A move of a drag on a WidthHeightHandle.
DragMoveWidthHeightHandle ==
    /\ dragHandle # None
    /\ Get(dragHandle) \in WHHandles
    /\ \E e \in WidthHeightDragEvents(Get(dragHandle)) :
          DragMoveWith(WidthHeightHandleDragMove(wh[Get(dragHandle)], Get(dragHandle),
                                                 e.dx, e.dy, e.control), e)

\* LightTool::dragEnd with the handle's handleDragEnd.
DragEnd ==
    /\ dragHandle # None
    /\ m_dragging' = FALSE
    /\ m_mergeGroupId' = m_mergeGroupId + 1
    /\ IF Get(dragHandle) \in SpotHandles
       THEN spot' = [spot EXCEPT ![Get(dragHandle)].m_drag = FALSE] /\ UNCHANGED wh
       ELSE wh' = [wh EXCEPT ![Get(dragHandle)].m_drag = FALSE] /\ UNCHANGED spot
    /\ dragHandle' = None
    /\ step' = [Idle("dragEnd") EXCEPT !.emitted = TRUE, !.returned = Some(FALSE)]
    /\ drag' = [drag EXCEPT !.pastGroups = @ \cup drag.groups]
    /\ UNCHANGED <<slt, worldVars, viewVars, active, m_scriptNode, m_handleInspectionsDirty,
                   m_handleTransformsDirty, m_priorityPathsDirty, handlesVisible>>

\* The user undoes the newest entry of the script's undo list; the restored
\* plugs dirty the scene's attributes.
Undo ==
    /\ dragHandle = None
    /\ undoStack # <<>>
    /\ values' = ValuesBefore(values, undoStack[Len(undoStack)])
    /\ edits' = EditsBefore(edits, undoStack[Len(undoStack)])
    /\ undoStack' = SubSeq(undoStack, 1, Len(undoStack) - 1)
    /\ m_handleInspectionsDirty' = TRUE
    /\ m_handleTransformsDirty' = TRUE
    /\ step' = Idle("event")
    /\ UNCHANGED <<slt, lights, editScope, viewVars, active, m_dragging, m_mergeGroupId, m_scriptNode,
                   m_priorityPathsDirty, handlesVisible, spot, wh,
                   dragHandle>>
    /\ drag' = Forget(drag)

DragBegin == DragBeginWithin(MaxDrags)

Next ==
    \/ ContextChanged
    \/ PlugDirtied
    \/ SetActive
    \/ MetadataChanged
    \/ DirtyHandleTransforms
    \/ PreRender
    \/ DragBegin
    \/ DragMoveSpotLightHandle
    \/ DragMoveWidthHeightHandle
    \/ DragEnd
    \/ Undo

Spec == Init /\ [][Next]_vars

(***************************************************************************)
(* Back-to-back drags on spot lights: the tool has been activated and a     *)
(* selection made (SetActive, then ContextChanged, from the constructed     *)
(* state); from there only renders and drags happen.                        *)
(***************************************************************************)
DragStart(scenes) ==
    /\ \E sc \in scenes :
          /\ lights = sc.lights
          /\ values = sc.values
          /\ editScope = sc.editScope
    /\ edits = {}
    /\ undoStack = <<>>
    /\ \E sel \in Selections :
          /\ sel.paths # {}
          /\ selectedPaths = sel.paths
          /\ lastSelectedPath = sel.last
    /\ sceneInput = TRUE
    /\ active = TRUE
    /\ m_dragging = FALSE
    /\ m_mergeGroupId = InitialMergeGroupId
    /\ m_scriptNode = None
    /\ m_handleInspectionsDirty = TRUE
    /\ m_handleTransformsDirty = TRUE
    /\ m_priorityPathsDirty = TRUE
    /\ handlesVisible = FALSE
    /\ spot = [t \in SpotHandles |-> SpotLightHandleInit]
    /\ wh = [t \in WHHandles |-> WidthHeightHandleInit]
    /\ dragHandle = None
    /\ slt = SpotLightToolInit
    /\ step = [Idle("event") EXCEPT !.emitted = TRUE]
    /\ drag = NoDrag

SpotDragInit == DragStart(SpotDragScenes)

SpotDragBegin == DragBeginWithin(MaxSpotDrags)

SpotDragNext ==
    \/ PreRender
    \/ SpotDragBegin
    \/ DragMoveSpotLightHandle
    \/ DragEnd

SpecSpotDrags == SpotDragInit /\ [][SpotDragNext]_vars

(***************************************************************************)
(* One drag over a selection that holds a light whose plugs are not         *)
(* FloatPlugs.                                                              *)
(***************************************************************************)
PlugTypeDragInit == DragStart({InsetAndCustomScene})

PlugTypeDragNext ==
    \/ PreRender
    \/ DragBegin
    \/ DragMoveSpotLightHandle
    \/ DragEnd

SpecPlugTypeDrags == PlugTypeDragInit /\ [][PlugTypeDragNext]_vars

(***************************************************************************)
(* Drags on spot lights that have a cone angle and no penumbra parameter.   *)
(***************************************************************************)
ConeOnlyDragInit == DragStart({ConeOnlyScene})

ConeOnlyDragNext ==
    \/ PreRender
    \/ SpotDragBegin
    \/ DragMoveSpotLightHandle
    \/ DragEnd

SpecConeOnlyDrags == ConeOnlyDragInit /\ [][ConeOnlyDragNext]_vars

(***************************************************************************)
(* Drags on quad and disk lights: the tool has been activated and a         *)
(* selection made; from there only renders and one drag happen.  The scenes *)
(* hold a wide and a tall quad light, a quad light of width zero beside a   *)
(* square one, and a disk light beside a locked quad light.  The dimensions *)
(* and DragOffsets are such that every product of a dimension and a         *)
(* multiplier is a whole number of tenths.                                  *)
(***************************************************************************)
WidthHeightDragInit ==
    /\ \E sc \in {Scene(NodeLight("quad"), QuadValues(20, 10),
                        NodeLight("quad"), QuadValues(10, 20), FALSE),
                  Scene(NodeLight("quad"), QuadValues(0, 10),
                        NodeLight("quad"), QuadValues(20, 20), FALSE),
                  Scene(NodeLight("disk"), DiskValues(10),
                        LockedLight("quad"), QuadValues(20, 10), FALSE)} :
          /\ lights = sc.lights
          /\ values = sc.values
          /\ editScope = sc.editScope
    /\ edits = {}
    /\ undoStack = <<>>
    /\ \E sel \in Selections :
          /\ sel.paths # {}
          /\ selectedPaths = sel.paths
          /\ lastSelectedPath = sel.last
    /\ sceneInput = TRUE
    /\ active = TRUE
    /\ m_dragging = FALSE
    /\ m_mergeGroupId = InitialMergeGroupId
    /\ m_scriptNode = None
    /\ m_handleInspectionsDirty = TRUE
    /\ m_handleTransformsDirty = TRUE
    /\ m_priorityPathsDirty = TRUE
    /\ handlesVisible = FALSE
    /\ spot = [t \in SpotHandles |-> SpotLightHandleInit]
    /\ wh = [t \in WHHandles |-> WidthHeightHandleInit]
    /\ dragHandle = None
    /\ slt = SpotLightToolInit
    /\ step = [Idle("event") EXCEPT !.emitted = TRUE]
    /\ drag = NoDrag

WidthHeightDragNext ==
    \/ PreRender
    \/ DragBegin
    \/ DragMoveWidthHeightHandle
    \/ DragEnd

SpecWidthHeightDrags == WidthHeightDragInit /\ [][WidthHeightDragNext]_vars

(***************************************************************************)
(* The dirty flags under the events, renders and drags without moves, from  *)
(* an active tool with a selection.  The step shows which plug was dirtied. *)
(***************************************************************************)
PlugDirtiedObserved ==
    \/ \E plug \in DirtiedPlugs \cup {"frustumScale"} :
          /\ active' = active
          /\ plugDirtied(plug, Some(plug))
    \/ \E value \in BOOLEAN :
          /\ active' = value
          /\ plugDirtied("active", Some("active"))

DirtyFlagsNext ==
    \/ PlugDirtiedObserved
    \/ ContextChanged
    \/ MetadataChanged
    \/ DirtyHandleTransforms
    \/ PreRender
    \/ DragBegin
    \/ DragEnd

SpecDirtyFlags == SpotDragInit /\ [][DirtyFlagsNext]_vars

(***************************************************************************)
(* The SpotLightTool's handlers.  The LightTool of the view stays as        *)
(* constructed: inactive, with every dirty flag already set, it is changed  *)
(* by none of these events.                                                 *)
(***************************************************************************)
lightToolVars == <<toolVars, drag>>

\* SpotLightTool::contextChanged( name ).
SpotLightToolContextChanged ==
    \E name \in ContextNames, sel \in Selections :
        /\ IF name = "ui:scene:selectedPaths"
           THEN selectedPaths' = sel.paths /\ lastSelectedPath' = sel.last
           ELSE UNCHANGED <<selectedPaths, lastSelectedPath>>
        /\ IF name = "ui:scene:selectedPaths" \/ name = "frame"
           THEN /\ slt' = [slt EXCEPT !.m_selectionDirty = TRUE, !.m_handleDirty = TRUE]
                /\ step' = [Idle("spotLightToolEvent") EXCEPT !.emitted = TRUE]
           ELSE /\ UNCHANGED slt
                /\ step' = Idle("spotLightToolEvent")
        /\ UNCHANGED <<worldVars, sceneInput, lightToolVars>>

\* SpotLightTool::plugDirtied for a plug other than the active plug.
SpotLightToolPlugDirtied ==
    \E plug \in DirtiedPlugs :
        /\ IF plug \in {"childNames", "transform", "editScope"}
           THEN /\ slt' = [slt EXCEPT !.m_selectionDirty = TRUE, !.m_handleDirty = TRUE]
                /\ step' = [Idle("spotLightToolEvent") EXCEPT !.emitted = ~slt.m_dragging]
           ELSE /\ UNCHANGED slt
                /\ step' = Idle("spotLightToolEvent")
        /\ UNCHANGED <<worldVars, viewVars, lightToolVars>>

\* The active plug is set: plugDirtied( activePlug() ).
SpotLightToolSetActive ==
    \E value \in BOOLEAN :
        /\ slt' = [slt EXCEPT !.active = value,
                              !.m_selectionDirty = TRUE,
                              !.m_handleDirty = TRUE,
                              !.handleVisible = IF value THEN @ ELSE FALSE]
        /\ step' = [Idle("spotLightToolEvent") EXCEPT !.emitted = ~slt.m_dragging]
        /\ UNCHANGED <<worldVars, viewVars, lightToolVars>>

\* SpotLightTool::preRender, connected while the tool is active.
SpotLightToolPreRender ==
    /\ slt.active
    /\ LET t == updateSelection(slt)
       IN  slt' = IF selectionEditable(t)
                  THEN [t EXCEPT !.handleVisible = TRUE, !.m_handleDirty = FALSE]
                  ELSE [t EXCEPT !.handleVisible = FALSE]
    /\ step' = Idle("spotLightToolPreRender")
    /\ UNCHANGED <<worldVars, viewVars, lightToolVars>>

\* The index of the first item whose acquireEdit cannot be made (a null or
\* a non-editable inspection ends the call), one past the end when none.
FirstRefusal(items) ==
    LET refuses(k) == items[k].inspection = None \/ ~Get(items[k].inspection).editable
    IN  IF \E k \in 1..Len(items) : refuses(k)
        THEN CHOOSE k \in 1..Len(items) : refuses(k) /\ \A j \in 1..(k - 1) : ~refuses(j)
        ELSE Len(items) + 1

\* The inspections of the items up to `last` on which acquireEdit is called.
AcquiredOf(items, last) ==
    LET called == SelectSeq([k \in 1..Min(last, Len(items)) |-> items[k]],
                            LAMBDA item : item.inspection # None)
    IN  [k \in 1..Len(called) |-> Get(called[k].inspection)]

\* SpotLightTool::setAngle( angle ), called with or without an UndoScope of
\* the caller around it.
SpotLightToolSetAngle ==
    \E angle \in SetAngles, callerScope \in BOOLEAN :
        /\ callerScope => Len(undoStack) < MaxUndoEntries
        /\ LET t == updateSelection(slt)
               stop == FirstRefusal(t.m_selection)
               writes == [k \in 1..(stop - 1) |->
                             [path |-> t.m_selection[k].path,
                              parameter |-> Get(t.m_selection[k].inspection).parameter,
                              value |-> angle]]
               w == ApplyWrites([values |-> values, edits |-> edits, recorded |-> {}, changed |-> FALSE],
                                writes, callerScope)
           IN  /\ slt' = t
               /\ values' = w.values
               /\ edits' = w.edits
               /\ undoStack' = IF w.recorded = {}
                               THEN undoStack
                               ELSE Append(undoStack, [mergeGroup |-> <<>>, before |-> w.recorded])
               /\ step' = [Idle("setAngle") EXCEPT
                               !.acquired = Acquisitions(AcquiredOf(t.m_selection, stop), callerScope),
                               !.writes = writes,
                               !.threw = (stop <= Len(t.m_selection)),
                               !.input = Some([angle |-> angle, callerScope |-> callerScope])]
               /\ UNCHANGED <<lights, editScope, viewVars, lightToolVars>>

\* SpotLightTool::dragBegin, on the handle the viewport draws.
SpotLightToolDragBegin ==
    /\ slt.handleVisible
    /\ ~slt.m_dragging
    /\ slt.m_mergeGroupId < MaxDrags
    /\ LET t == updateSelection(slt)
       IN  slt' = [t EXCEPT !.m_drag = [k \in 1..Len(t.m_selection) |->
                                           [inspection |-> t.m_selection[k].inspection,
                                            m_originalAngle |-> None]],
                            !.m_dragging = TRUE]
    /\ step' = Idle("spotLightToolDragBegin")
    /\ UNCHANGED <<worldVars, viewVars, lightToolVars>>

\* The angle Angle::apply scales: the plug's value at the first call.
OriginalAngle(a) ==
    IF a.m_originalAngle # None
    THEN Get(a.m_originalAngle)
    ELSE values[Get(a.inspection).path][Get(a.inspection).parameter]

\* The index of the first Angle whose apply is refused by acquireEdit (a
\* non-editable inspection; apply skips an Angle without inspection), one
\* past the end when none.
FirstRefusedApply(angles) ==
    LET refuses(k) == angles[k].inspection # None /\ ~Get(angles[k].inspection).editable
    IN  IF \E k \in 1..Len(angles) : refuses(k)
        THEN CHOOSE k \in 1..Len(angles) : refuses(k) /\ \A j \in 1..(k - 1) : ~refuses(j)
        ELSE Len(angles) + 1

\* runTimeCast<FloatPlug>( m_inspection->acquireEdit() ) of Angle::apply
\* succeeds: the cast is made on the acquired plug itself, so only the
\* FloatPlug of a light's node passes; an edit made in the edit scope is a
\* tweak, which activeValuePlug would have to unwrap.
AppliedPlugIsFloat(inspection) ==
    ~editScope /\ lights[inspection.path].shader # "spotCustom"

\* SpotLightTool::dragMove.  The first acquireEdit is an argument of the
\* UndoScope's constructor and so is made before the scope exists; a null
\* front inspection or a refused acquireEdit ends the call.  Angle::apply
\* acquires the edit of every Angle with an inspection and sets the plug
\* when it is a FloatPlug; any other plug is left as it is, with a warning.
SpotLightToolDragMove ==
    /\ slt.m_dragging
    /\ \E scaling \in Scalings :
          IF slt.m_drag = <<>>
          THEN /\ step' = [Idle("spotLightToolDragMove") EXCEPT !.returned = Some(TRUE)]
               /\ UNCHANGED <<slt, worldVars>>
          ELSE IF FirstRefusal(slt.m_drag) = 1
          THEN /\ step' = [Idle("spotLightToolDragMove") EXCEPT
                               !.acquired = Acquisitions(AcquiredOf(slt.m_drag, 1), FALSE),
                               !.threw = TRUE]
               /\ UNCHANGED <<slt, worldVars>>
          ELSE LET front == Get(slt.m_drag[1].inspection)
                   stop == FirstRefusedApply(slt.m_drag)
                   applied == SelectSeq([k \in 1..(stop - 1) |-> slt.m_drag[k]],
                                        LAMBDA a : a.inspection # None)
                   effects == [k \in 1..Len(applied) |->
                                  [path |-> Get(applied[k].inspection).path,
                                   parameter |-> Get(applied[k].inspection).parameter,
                                   value |-> IF AppliedPlugIsFloat(Get(applied[k].inspection))
                                             THEN OriginalAngle(applied[k]) * scaling
                                             ELSE values[Get(applied[k].inspection).path]
                                                        [Get(applied[k].inspection).parameter]]]
                   writes == SelectSeq(effects,
                                       LAMBDA x : AppliedPlugIsFloat([path |-> x.path]))
                   acquiredEdits == IF editScope
                                    THEN edits \cup {<<front.path, front.parameter>>}
                                    ELSE edits
                   w == ApplyWrites([values |-> values, edits |-> acquiredEdits,
                                     recorded |-> {}, changed |-> FALSE], effects, TRUE)
               IN  /\ slt' = [slt EXCEPT !.m_drag =
                                 [k \in 1..Len(slt.m_drag) |->
                                     IF /\ k < stop
                                        /\ slt.m_drag[k].inspection # None
                                        /\ AppliedPlugIsFloat(Get(slt.m_drag[k].inspection))
                                     THEN [slt.m_drag[k] EXCEPT
                                              !.m_originalAngle = Some(OriginalAngle(slt.m_drag[k]))]
                                     ELSE slt.m_drag[k]]]
                   /\ values' = w.values
                   /\ edits' = w.edits
                   /\ undoStack' = CloseUndoScope(undoStack, sltUndoMergeGroup(slt), w.recorded)
                   /\ UNCHANGED <<lights, editScope>>
                   /\ step' = [Idle("spotLightToolDragMove") EXCEPT
                                   !.acquired = Acquisitions(<<front>>, FALSE)
                                                \o Acquisitions(AcquiredOf(slt.m_drag, stop), TRUE),
                                   !.writes = writes,
                                   !.threw = (stop <= Len(slt.m_drag)),
                                   !.returned = IF stop <= Len(slt.m_drag) THEN None ELSE Some(TRUE),
                                   !.input = Some([scaling |-> scaling]),
                                   !.group = Some(sltUndoMergeGroup(slt))]
    /\ UNCHANGED <<viewVars, lightToolVars>>

\* SpotLightTool::dragEnd.
SpotLightToolDragEnd ==
    /\ slt.m_dragging
    /\ slt' = [slt EXCEPT !.m_dragging = FALSE, !.m_mergeGroupId = @ + 1]
    /\ step' = [Idle("spotLightToolDragEnd") EXCEPT !.emitted = TRUE, !.returned = Some(FALSE)]
    /\ UNCHANGED <<worldVars, viewVars, lightToolVars>>

SpotLightToolStart ==
    /\ Constructed(SpotLightToolScenes)
    /\ \E order \in {<<{PathOrder[1]}, {PathOrder[2]}>>, <<{PathOrder[2]}, {PathOrder[1]}>>} :
          slt = [SpotLightToolInit EXCEPT !.sourceOrder = order]

SpotLightToolNext ==
    \/ SpotLightToolContextChanged
    \/ SpotLightToolPlugDirtied
    \/ SpotLightToolSetActive
    \/ SpotLightToolPreRender
    \/ SpotLightToolSetAngle
    \/ SpotLightToolDragBegin
    \/ SpotLightToolDragMove
    \/ SpotLightToolDragEnd

SpecSpotLightTool == SpotLightToolStart /\ [][SpotLightToolNext]_vars

(***************************************************************************)
(* SpotLightTool::handleTransform called between the events that dirty the  *)
(* selection and the handle.  It returns m_handle's transform, which        *)
(* updateHandle refreshes when m_handleDirty is set; the step records       *)
(* whether that refresh ran.                                                *)
(***************************************************************************)
SpotLightToolHandleTransform ==
    /\ LET t == updateSelection(slt)
       IN  IF ~selectionEditable(t)
           THEN /\ slt' = t
                /\ step' = [Idle("handleTransform") EXCEPT !.threw = TRUE]
           ELSE /\ slt' = [t EXCEPT !.m_handleDirty = FALSE]
                /\ step' = [Idle("handleTransform") EXCEPT
                                !.returned = Some([refreshed |-> t.m_handleDirty])]
    /\ UNCHANGED <<worldVars, viewVars, lightToolVars>>

(***************************************************************************)
(* ParameterInspector::source and ParameterInspector::editFunction called   *)
(* on their own.  EditScopeAlgo::parameterEditReadOnlyReason gives null or  *)
(* a read-only graph component, of which the relative name is kept; the     *)
(* filter's match is the set of PathMatcher::Result bits; a tweak is its    *)
(* name and its enabled plug, and the tweak returned is named by its        *)
(* position among the tweaks.                                               *)
(***************************************************************************)
\* A faulty editFunction: the read-only reason is not consulted.
editFunctionUnlocked(readOnlyReason, edit) ==
    [failure |-> None, function |-> Some(edit)]

\* ParameterInspector::editFunction: the EditFunctionOrFailure, given the
\* result of parameterEditReadOnlyReason and what the lambda captures.
editFunction(readOnlyReason, edit) ==
    IF readOnlyReason # None
    THEN [failure |-> Some(Get(readOnlyReason) \o " is locked."), function |-> None]
    ELSE [failure |-> None, function |-> Some(edit)]

\* A faulty scan of the tweaks: the enabled plug is not read.
RECURSIVE ShaderTweaksSourceOfAnyTweak(_, _, _, _)
ShaderTweaksSourceOfAnyTweak(match, tweaks, parameter, i) ==
    IF "ExactMatch" \notin match \/ i > Len(tweaks)
    THEN None
    ELSE IF tweaks[i].name = parameter
    THEN Some(i)
    ELSE ShaderTweaksSourceOfAnyTweak(match, tweaks, parameter, i + 1)

\* The ShaderTweaks branch of ParameterInspector::source, scanning from the
\* i-th tweak.
RECURSIVE ShaderTweaksSource(_, _, _, _)
ShaderTweaksSource(match, tweaks, parameter, i) ==
    IF "ExactMatch" \notin match \/ i > Len(tweaks)
    THEN None
    ELSE IF tweaks[i].name = parameter /\ tweaks[i].enabled
    THEN Some(i)
    ELSE ShaderTweaksSource(match, tweaks, parameter, i + 1)

\* A call of editFunction for a location and a parameter of the scene.
EditFunction ==
    \E readOnlyReason \in {None, Some(""), Some("EditScope"), Some("Box.EditScope")},
       path \in Paths, parameter \in {"coneAngle", "penumbraAngle"} :
        /\ step' = [Idle("editFunction") EXCEPT
                        !.input = Some([readOnlyReason |-> readOnlyReason]),
                        !.returned = Some(editFunction(readOnlyReason,
                                              [editScope |-> editScope, path |-> path,
                                               attributeName |-> LightAttribute,
                                               parameter |-> parameter]))]
        /\ UNCHANGED <<slt, worldVars, viewVars, lightToolVars>>

\* A call of source for a history that ends at a ShaderTweaks node.
Source ==
    \E match \in {{}, {"ExactMatch"}, {"AncestorMatch", "DescendantMatch"},
                   {"ExactMatch", "DescendantMatch"}},
       n \in 0..MaxTweaks, parameter \in {"coneAngle", "penumbraAngle"} :
        \E tweaks \in [1..n -> [name : {"coneAngle", "penumbraAngle"}, enabled : BOOLEAN]] :
            /\ step' = [Idle("source") EXCEPT
                            !.input = Some([match |-> match, tweaks |-> tweaks, parameter |-> parameter]),
                            !.returned = ShaderTweaksSource(match, tweaks, parameter, 1)]
            /\ UNCHANGED <<slt, worldVars, viewVars, lightToolVars>>

ParameterInspectorNext == EditFunction \/ Source

FunctionCallInit == Constructed(SpotDragScenes) /\ slt = SpotLightToolInit

SpecParameterInspector == FunctionCallInit /\ [][ParameterInspectorNext]_vars

(***************************************************************************)
(* Dragging the Cone handle while the view looks through the selected       *)
(* light.  Raster positions are pixels along the handle's plane, measured   *)
(* from the raster position of the gadget's origin; a gadget-space point is *)
(* [x, z] with z its depth in front of the camera, in any common unit (a    *)
(* projection divides the unit out, so the intersection with the unit       *)
(* sphere is kept as a point of the ray); the handle lies on the side of    *)
(* negative x.  Tangents are in thousandths, angles in whole degrees.       *)
(***************************************************************************)
\* tan( degreesToRadians( a ) ) * 1000 for 0 <= a <= 89.
Tan(a) ==
    IF a = 0
    THEN 0
    ELSE <<
           17, 35, 52, 70, 87, 105, 123, 141, 158, 176,
           194, 213, 231, 249, 268, 287, 306, 325, 344, 364,
           384, 404, 424, 445, 466, 488, 510, 532, 554, 577,
           601, 625, 649, 675, 700, 727, 754, 781, 810, 839,
           869, 900, 933, 966, 1000, 1036, 1072, 1111, 1150, 1192,
           1235, 1280, 1327, 1376, 1428, 1483, 1540, 1600, 1664, 1732,
           1804, 1881, 1963, 2050, 2145, 2246, 2356, 2475, 2605, 2747,
           2904, 3078, 3271, 3487, 3732, 4011, 4331, 4705, 5145, 5671,
           6314, 7115, 8144, 9514, 11430, 14301, 19081, 28636, 57290
         >>[a]

\* radiansToDegrees( atan2( y, x ) ) for x > 0, rounded towards zero.
AtanDegrees(y, x) ==
    LET below(v) == {a \in 0..89 : Tan(a) * x <= v * 1000}
        greatest(S) == CHOOSE a \in S : \A b \in S : b <= a
    IN  IF y >= 0 THEN greatest(below(y)) ELSE 0 - greatest(below(0 - y))

\* The focal length in pixels of the look-through camera, whose field of
\* view is the cone of the light, for a viewport 200 pixels wide.
Focal(coneHandleAngle) == (100 * 1000) \div Tan(coneHandleAngle)

\* ViewportGadget::gadgetToRasterSpace under the camera of the moment.
gadgetToRasterSpace(point, focal) == (focal * point.x) \div point.z

\* SpotLightHandle::rasterDragDistance: gadgetRasterOrigin - projectedPoint,
\* with the sign the viewport's orientation gives it.
rasterDragDistance(ray, focal) == 0 - gadgetToRasterSpace(ray, focal)

\* The look-through branch of SpotLightHandle::dragBegin.
LookThroughReferences(h, clickLine, focal) ==
    LET dragStartAngle == h.m_dragStartData.originalConeHandleAngle
        clickRaster == rasterDragDistance(clickLine, focal)
        originRaster == rasterDragDistance([x |-> 0, z |-> 1000], focal)
        handleRaster == rasterDragDistance([x |-> 0 - Tan(dragStartAngle), z |-> 1000], focal)
        delta == handleRaster - originRaster
    IN  [h EXCEPT !.m_rasterXOffset = delta - clickRaster,
                  !.m_rasterZPosition = (Abs(delta) * 1000) \div Tan(dragStartAngle)]

\* A faulty look-through angle: the angle of the event's line in gadget
\* space, which follows the field of view.
LookThroughHandleAngleOfLine(h, dragLine, focal) ==
    AtanDegrees(0 - dragLine.x, dragLine.z)

\* The look-through branch of SpotLightHandle::handleDragMove.
LookThroughHandleAngle(h, dragLine, focal) ==
    AtanDegrees(rasterDragDistance(dragLine, focal) + h.m_rasterXOffset, h.m_rasterZPosition)

\* A spot light seen through itself, selected, the tool active.
LookThroughInit ==
    DragStart({Scene(NodeLight("spotPlain"), SpotValues("spotPlain", 45, 10),
                     NodeLight("mesh"), NoValues, FALSE)})

\* dragBegin of the Cone handle with the pointer `click` pixels from the
\* centre of the view.
LookThroughDragBegin ==
    \E click \in {80, 90, 100} :
        LET h == spot["Cone"]
            focal == Focal(spotLightHandleAngles(h).originalConeHandleAngle)
            begun == [h EXCEPT !.m_dragStartData = spotLightHandleAngles(h), !.m_drag = TRUE]
        IN  /\ dragHandle = None
            /\ handlesVisible
            /\ h.visible
            /\ lastSelectedPath = Some("lightA")
            /\ m_mergeGroupId < InitialMergeGroupId + MaxDrags
            /\ m_dragging' = TRUE
            /\ m_scriptNode' \in ScriptNodeAfterDragBegin("Cone")
            /\ spot' = [spot EXCEPT !["Cone"] =
                            LookThroughReferences(begun, [x |-> 0 - click, z |-> focal], focal)]
            /\ dragHandle' = Some("Cone")
            /\ step' = [Idle("dragBegin") EXCEPT !.input = Some([raster |-> click, focal |-> focal])]
            /\ drag' = [selection |-> selection, groups |-> {}, pastGroups |-> drag.pastGroups,
                        preValues |-> Some(values), preEdits |-> edits, preUndo |-> Len(undoStack)]
            /\ UNCHANGED <<slt, worldVars, viewVars, active, m_mergeGroupId, m_handleInspectionsDirty,
                           m_handleTransformsDirty, m_priorityPathsDirty, handlesVisible, wh>>

\* dragMove with the pointer `raster` pixels from the centre of the view,
\* under the field of view the light's cone has by now.
LookThroughDragMove ==
    /\ dragHandle = Some("Cone")
    /\ \E raster \in {50, 100, 150, 200} :
          LET h == spot["Cone"]
              focal == Focal(spotLightHandleAngles(h).originalConeHandleAngle)
              newHandleAngle == LookThroughHandleAngle(h, [x |-> 0 - raster, z |-> focal], focal)
          IN  DragMoveWith(SpotLightHandleDragMove(h, "Cone", TRUE, newHandleAngle),
                           [raster |-> raster, focal |-> focal, newHandleAngle |-> newHandleAngle])

LookThroughNext ==
    \/ PreRender
    \/ LookThroughDragBegin
    \/ LookThroughDragMove
    \/ DragEnd

SpecLookThrough == LookThroughInit /\ [][LookThroughNext]_vars

(***************************************************************************)
(* The warning text of drawSelectionTips, as the lines it joins with        *)
(* newlines: the tips listed and the count of the "and {} more" line, if    *)
(* there is one.                                                            *)
(***************************************************************************)
\* A faulty warningInfo: the tips past g_warningTipCount are always counted.
WarningInfoAlwaysCounting(warningTips) ==
    [lines |-> [i \in 1..Min(Len(warningTips), g_warningTipCount) |-> warningTips[i]],
     more |-> IF Len(warningTips) > g_warningTipCount
              THEN Some(Len(warningTips) - g_warningTipCount)
              ELSE None]

\* warningInfo of drawSelectionTips for the collected warningTips.
WarningInfo(warningTips) ==
    LET warningSize == Len(warningTips)
        listed == [i \in 1..Min(warningSize, g_warningTipCount) |-> warningTips[i]]
    IN  [lines |-> IF warningSize = g_warningTipCount + 1
                   THEN Append(listed, warningTips[warningSize])
                   ELSE listed,
         more |-> IF warningSize > g_warningTipCount + 1
                  THEN Some(warningSize - g_warningTipCount)
                  ELSE None]

\* drawSelectionTips for inspections that give the warnings `warningTips`.
DrawSelectionTips ==
    \E n \in 0..MaxWarningTips :
        \E warningTips \in [1..n -> {"Light is locked.",
                                     "Edits to shader may affect other locations in the scene."}] :
            /\ step' = [Idle("drawSelectionTips") EXCEPT
                            !.input = Some(warningTips),
                            !.returned = Some(WarningInfo(warningTips))]
            /\ UNCHANGED <<slt, worldVars, viewVars, lightToolVars>>

SpecSelectionTips == FunctionCallInit /\ [][DrawSelectionTips]_vars

(***************************************************************************)
(* The registry of spot lights: registerSpotLight called with attribute and *)
(* shader names of which some concatenate to the same key, and              *)
(* spotLightParameter looked up for the locations of the scene.             *)
(***************************************************************************)
\* SpotLightTool::registerSpotLight( shaderAttribute, shaderName, coneAngleParameter ).
RegisterSpotLight ==
    \E shaderAttribute \in {"light", "ligh"}, shaderName \in {"quad", "tquad", "spotInset"},
       coneAngleParameter \in {"coneAngle", "width"} :
        LET key == spotLightParameterKey(shaderAttribute, shaderName)
            call == [shaderAttribute |-> shaderAttribute, shaderName |-> shaderName,
                     coneAngleParameter |-> coneAngleParameter]
        IN  /\ slt' = [slt EXCEPT !.g_spotLightParameterMap = Registered(@, key, coneAngleParameter),
                                  !.registeredPairs = IF key \notin DOMAIN g_spotLightParameterMap
                                                      THEN @ \cup {call} ELSE @]
            /\ step' = [Idle("registerSpotLight") EXCEPT
                            !.returned = Some(key \notin DOMAIN g_spotLightParameterMap),
                            !.input = Some([key |-> key, coneAngleParameter |-> coneAngleParameter,
                                            shaderAttribute |-> shaderAttribute,
                                            shaderName |-> shaderName])]
            /\ UNCHANGED <<worldVars, viewVars, lightToolVars>>

\* A call of SpotLightTool::spotLightParameter( scene, path ).
SpotLightParameter ==
    \E path \in Paths :
        /\ step' = [Idle("spotLightParameter") EXCEPT
                        !.returned = spotLightParameter(path), !.input = Some(path)]
        /\ UNCHANGED <<slt, worldVars, viewVars, lightToolVars>>

RegistryNext == RegisterSpotLight \/ SpotLightParameter

SpecRegistry == SpotLightToolStart /\ [][RegistryNext]_vars

HandleTransformNext ==
    \/ SpotLightToolContextChanged
    \/ SpotLightToolPlugDirtied
    \/ SpotLightToolSetActive
    \/ SpotLightToolPreRender
    \/ SpotLightToolDragBegin
    \/ SpotLightToolDragEnd
    \/ SpotLightToolHandleTransform

SpecHandleTransform == SpotLightToolStart /\ [][HandleTransformNext]_vars

(***************************************************************************)
(* updateSelection from its sort on, over up to three selected paths whose  *)
(* lights may be driven by one and the same plug.  The first selection made *)
(* in the view gives the paths and the last-selected one; the call is then  *)
(* made on the items its loop over the selected paths built, with every     *)
(* arrangement std::sort may leave items in that compare equal.             *)
(***************************************************************************)
SelectPaths ==
    /\ selectedPaths = {}
    /\ \E paths \in SUBSET {"lightA", "lightB", "lightC"} :
          /\ paths # {}
          /\ selectedPaths' = paths
          /\ \E last \in paths : lastSelectedPath' = Some(last)
    /\ slt' = [slt EXCEPT !.m_selectionDirty = TRUE, !.m_handleDirty = TRUE]
    /\ step' = [Idle("spotLightToolEvent") EXCEPT !.emitted = TRUE]
    /\ UNCHANGED <<worldVars, sceneInput, lightToolVars>>

UpdateSelectionSort ==
    /\ selectedPaths # {}
    /\ slt.m_selectionDirty
    /\ LET paths == SelectSeq(<<"lightA", "lightB", "lightC">>, LAMBDA q : q \in selectedPaths)
           n == Len(paths)
           inspections(q) ==
               {None}
               \cup {Some([path |-> q, parameter |-> "coneAngle", value |-> 90,
                           source |-> x.source, editable |-> x.editable]) :
                        x \in {[source |-> TRUE, editable |-> TRUE],
                               [source |-> TRUE, editable |-> FALSE],
                               [source |-> FALSE, editable |-> TRUE]}}
       IN  \E order \in {<<{"lightA"}, {"lightB"}, {"lightC"}>>,
                          <<{"lightC"}, {"lightB"}, {"lightA"}>>,
                          <<{"lightA", "lightB"}, {"lightC"}>>,
                          <<{"lightB"}, {"lightA", "lightC"}>>,
                          <<{"lightA", "lightB", "lightC"}>>} :
           \E items \in {it \in [1..n -> UNION {{[path |-> paths[k], inspection |-> x] :
                                                     x \in inspections(paths[k])} : k \in 1..n}] :
                             \A k \in 1..n : it[k].path = paths[k]} :
           LET t == [slt EXCEPT !.sourceOrder = order]
           IN  \E f \in {g \in [1..n -> 1..n] : \A a, b \in 1..n : a # b => g[a] # g[b]} :
                   /\ \A a, b \in 1..n : a < b => ~SelectionLess(t, items[f[b]], items[f[a]])
                   /\ slt' = [t EXCEPT
                                 !.m_selection =
                                     LastToBack(UniqueSelection(t, [k \in 1..n |-> items[f[k]]])),
                                 !.m_selectionDirty = FALSE]
                   /\ step' = [Idle("updateSelection") EXCEPT !.input = Some([items |-> items])]
    /\ UNCHANGED <<worldVars, viewVars, lightToolVars>>

SelectionSortNext == SelectPaths \/ UpdateSelectionSort

SpecSelectionSort == FunctionCallInit /\ [][SelectionSortNext]_vars

(***************************************************************************)
(* The angle functions of SpotLightHandle called on their own.  The handles *)
(* have been updated on a spot light of one of the four shaders; the        *)
(* arguments come from bounded sets.  Halving a float is exact, so the plug *)
(* angles are the even ones, whose integer halves are exact too.            *)
(***************************************************************************)
HandleAngleScenes ==
    {Scene(NodeLight(s), SpotValues(s, 45, 45), NodeLight("mesh"), NoValues, FALSE) :
        s \in {"spotInset", "spotOutset", "spotAbsolute", "spotPlain"}}

AngleInputs == {0 - 60, 0, 30, 60, 90, 180}

HandleAnglesInit ==
    /\ \E sc \in HandleAngleScenes :
          /\ lights = sc.lights
          /\ values = sc.values
          /\ editScope = sc.editScope
    /\ edits = {}
    /\ undoStack = <<>>
    /\ selectedPaths = {}
    /\ lastSelectedPath = None
    /\ sceneInput = TRUE
    /\ active = FALSE
    /\ m_dragging = FALSE
    /\ m_mergeGroupId = InitialMergeGroupId
    /\ m_scriptNode = None
    /\ m_handleInspectionsDirty = TRUE
    /\ m_handleTransformsDirty = TRUE
    /\ m_priorityPathsDirty = TRUE
    /\ handlesVisible = FALSE
    /\ spot = [t \in SpotHandles |-> SpotLightHandleUpdate(SpotLightHandleInit, "lightA")]
    /\ wh = [t \in WHHandles |-> WidthHeightHandleInit]
    /\ dragHandle = None
    /\ slt = SpotLightToolInit
    /\ step = Idle("update")
    /\ drag = NoDrag

\* clampHandleAngle( angle, originalConeAngle, originalPenumbraAngle ) on the
\* handle of type t; value() of an absent penumbra throws.
ClampHandleAngle ==
    /\ \E t \in SpotHandles, angle \in AngleInputs, cone \in AngleInputs,
          penumbra \in {None} \cup {Some(a) : a \in AngleInputs} :
          step' = [Idle("clampHandleAngle") EXCEPT
                      !.input = Some([handle |-> t, angle |-> angle,
                                      originalConeAngle |-> cone,
                                      originalPenumbraAngle |-> penumbra]),
                      !.threw = clampHandleAngleThrows(spot[t], t, penumbra),
                      !.returned =
                          IF clampHandleAngleThrows(spot[t], t, penumbra)
                          THEN None
                          ELSE Some(clampHandleAngle(spot[t], t, angle, cone, penumbra))]
    /\ UNCHANGED <<worldVars, viewVars, toolVars, slt, drag>>

\* handleAngles( coneAngleData, penumbraAngleData ) on the handle of type t.
HandleAngles ==
    /\ \E t \in SpotHandles, cone \in AngleInputs,
          penumbra \in {None} \cup {Some(a) : a \in AngleInputs} :
          step' = [Idle("handleAngles") EXCEPT
                      !.input = Some([handle |-> t, cone |-> cone, penumbra |-> penumbra]),
                      !.returned = Some(handleAngles(spot[t], cone, penumbra))]
    /\ UNCHANGED <<worldVars, viewVars, toolVars, slt, drag>>

\* conePlugAngle and penumbraPlugAngle on the angles handleAngles returned.
PlugAngles ==
    /\ step.op = "handleAngles"
    /\ LET h == spot[Get(step.input).handle]
           a == Get(step.returned)
       IN  step' = [Idle("plugAngles") EXCEPT
                       !.input = step.input,
                       !.returned =
                           Some([cone |-> conePlugAngle(h, a.cone),
                                 penumbra |-> IF a.penumbra = None
                                              THEN None
                                              ELSE Some(penumbraPlugAngle(h, Get(a.penumbra)))])]
    /\ UNCHANGED <<worldVars, viewVars, toolVars, slt, drag>>

HandleAnglesNext ==
    \/ ClampHandleAngle
    \/ HandleAngles
    \/ PlugAngles

SpecHandleAngles == HandleAnglesInit /\ [][HandleAnglesNext]_vars

(***************************************************************************)
(* update( scenePath, editScope ) called on single handles of a constructed *)
(* tool, with the view's scene and edit scope.  A call is a repeat when the *)
(* call before it was made on the same handle with the same path.           *)
(***************************************************************************)
HandleUpdate ==
    /\ \E handle \in SpotHandles \cup WHHandles, path \in Paths :
          /\ IF handle \in SpotHandles
             THEN /\ spot' = [spot EXCEPT ![handle] = SpotLightHandleUpdate(@, path)]
                  /\ wh' = wh
             ELSE /\ wh' = [wh EXCEPT ![handle] = WidthHeightHandleUpdate(@, handle, path)]
                  /\ spot' = spot
          /\ step' = [Idle("update") EXCEPT
                          !.input = Some([handle |-> handle, path |-> path,
                                          repeat |-> /\ step.op = "update"
                                                     /\ Get(step.input).handle = handle
                                                     /\ Get(step.input).path = path])]
    /\ UNCHANGED <<worldVars, viewVars, active, m_dragging, m_mergeGroupId, m_scriptNode,
                   m_handleInspectionsDirty, m_handleTransformsDirty, m_priorityPathsDirty,
                   handlesVisible, dragHandle, slt, drag>>

SpecHandleUpdate == Init /\ [][HandleUpdate]_vars

(***************************************************************************)
(* Properties.                                                              *)
(***************************************************************************)
\* The handle-space angles of the spot light at `path`, from its plugs and
\* the metadata of its shader.
LightConeHandleAngle(path) ==
    IF Metadata(lights[path].shader, "coneAngleType") = Some("half")
    THEN values[path]["coneAngle"]
    ELSE values[path]["coneAngle"] \div 2

LightPenumbraHandleAngle(path) ==
    IF Metadata(lights[path].shader, "penumbraType") = Some(g_absolutePenumbraType)
    THEN values[path]["penumbraAngle"] \div 2
    ELSE values[path]["penumbraAngle"]

IsSpotLight(path) == isLightType(lights[path].shader, "spot")

\* The handle a drag is on, while it is on a SpotLightHandle.
DraggedSpotHandle == spot[Get(dragHandle)]

\* C1: while dragging is true (from dragBegin until the matching dragEnd)
\* selectionChanged is not emitted, whatever event arrives.
C1_NoSelectionChangedWhileDragging == m_dragging => ~step.emitted

\* C2: selection() returns, at every point of a drag, the set of paths it
\* returned at dragBegin, even when the context's selection changes.
C2_SelectionFrozenWhileDragging == m_dragging => selection = drag.selection

\* The undo scopes of the current drag carry one merge group, used by no
\* earlier drag; and when a drag that changed plugs has ended, the newest undo
\* entry is that drag's and undoing it restores every plug (and edit) to its
\* state at dragBegin.
DragUndoesAsOneStep ==
    /\ Cardinality(drag.groups) <= 1
    /\ m_dragging => drag.groups \cap drag.pastGroups = {}
    /\ (step.op = "dragEnd" /\ (Some(values) # drag.preValues \/ edits # drag.preEdits))
          => /\ Len(undoStack) = drag.preUndo + 1
             /\ undoStack[Len(undoStack)].mergeGroup \in drag.groups
             /\ Some(ValuesBefore(values, undoStack[Len(undoStack)])) = drag.preValues
             /\ EditsBefore(edits, undoStack[Len(undoStack)]) = drag.preEdits

\* C3: the undo scopes of one drag carry one merge group, which no other drag
\* of the tool uses; mergeGroupId changes only in dragEnd, by +1; and when a
\* drag that changed plugs has ended, the newest undo entry is that drag's
\* and undoing it restores every plug (and edit) to its state at dragBegin.
C3_DragIsOneUndoStep ==
    [][/\ DragUndoesAsOneStep'
       /\ m_mergeGroupId' # m_mergeGroupId
             => step'.op = "dragEnd" /\ m_mergeGroupId' = m_mergeGroupId + 1]_vars

\* C4: after any sequence of Cone and Penumbra drags with renders in between,
\* every spot light satisfies the coupling of its penumbra type: inset or
\* absent, penumbra <= cone; outset, cone <= 90 - penumbra.
C4_CouplingAfterDrags ==
    \A p \in Paths :
        IsSpotLight(p) =>
            LET penumbraType == Metadata(lights[p].shader, "penumbraType")
            IN  /\ (penumbraType = None \/ penumbraType = Some(g_insetPenumbraType))
                      => LightPenumbraHandleAngle(p) <= LightConeHandleAngle(p)
                /\ penumbraType = Some(g_outsetPenumbraType)
                      => LightConeHandleAngle(p) <= 90 - LightPenumbraHandleAngle(p)

\* C5: every angle a SpotLightHandle drag move writes lies, in handle space,
\* in [0, 90], whatever cone and penumbra the lights had at drag start.
C5_WrittenAnglesInRange ==
    (step.op = "dragMove" /\ dragHandle # None /\ Get(dragHandle) \in SpotHandles)
        => \A i \in 1..Len(step.writes) :
              LET a == IF step.writes[i].parameter = "coneAngle"
                       THEN LightConeHandleAngle(step.writes[i].path)
                       ELSE LightPenumbraHandleAngle(step.writes[i].path)
              IN  0 <= a /\ a <= 90

\* A drag-start snapshot of the handle lacks an inspection, or holds a
\* non-editable one, for a parameter the handle edits.
HasUneditableSnapshot(id) ==
    IF id \in SpotHandles
    THEN \E i \in 1..Len(spot[id].m_inspections) :
            LET edited == IF id = "Cone"
                          THEN spot[id].m_inspections[i].coneInspection
                          ELSE spot[id].m_inspections[i].penumbraInspection
            IN  edited = None \/ ~Get(edited).editable
    ELSE \E i \in 1..Len(wh[id].m_inspections) :
            \/ /\ "Width" \in WidthHeightHandleConfig(id).m_handleType
               /\ (\/ wh[id].m_inspections[i].widthInspection = None
                   \/ ~Get(wh[id].m_inspections[i].widthInspection).editable)
            \/ /\ "Height" \in WidthHeightHandleConfig(id).m_handleType
               /\ (\/ wh[id].m_inspections[i].heightInspection = None
                   \/ ~Get(wh[id].m_inspections[i].heightInspection).editable)

\* C6: a drag move on a handle that holds a snapshot with a missing or
\* non-editable inspection for a parameter it edits acquires no edit, leaves
\* every plug, edit and undo entry as it was, and returns true.
C6_NoWriteUnlessAllEditable ==
    [][(step'.op = "dragMove" /\ HasUneditableSnapshot(Get(dragHandle)))
          => /\ step'.acquired = <<>>
             /\ step'.writes = <<>>
             /\ values' = values
             /\ edits' = edits
             /\ undoStack' = undoStack
             /\ step'.returned = Some(TRUE)]_vars

\* A move that would change the editable light of a multi-selection with a
\* locked light has been made on the Cone handle.
C6_Witness ==
    /\ step.op = "dragMove"
    /\ dragHandle = Some("Cone")
    /\ Get(step.input).hit
    /\ HasUneditableSnapshot("Cone")
    /\ \E i \in 1..Len(spot["Cone"].m_inspections) :
          /\ Get(spot["Cone"].m_inspections[i].coneInspection).editable
          /\ spot["Cone"].m_inspections[i].originalConeHandleAngle # Get(step.input).newHandleAngle

\* The inspectors a handle requires: the cone inspector, and the penumbra
\* inspector for a Penumbra handle; width and height for a WidthHeightHandle.
RequiredInspectors(id) ==
    IF id = "Cone" THEN <<spot[id].m_coneAngleInspector>>
    ELSE IF id = "Penumbra" THEN <<spot[id].m_coneAngleInspector, spot[id].m_penumbraAngleInspector>>
    ELSE <<wh[id].m_widthInspector, wh[id].m_heightInspector>>

\* Every inspector of the list exists and inspects non-null at every
\* selected path.
AllInspect(inspectors) ==
    \A k \in 1..Len(inspectors) :
        /\ inspectors[k] # None
        /\ \A p \in selection : Inspect(Get(inspectors[k]), p) # None

\* C8: after an updateHandleInspections pass (a call that got past the early
\* returns) a handle is visible only if the selection is non-empty and each
\* inspector the handle requires exists and inspects non-null at every
\* selected path.
C8_VisibleOnlyIfInspected ==
    (step.op = "preRender" /\ step.pass)
        => \A id \in SpotHandles \cup WHHandles :
              HandleIsVisible(id) => (selection # {} /\ AllInspect(RequiredInspectors(id)))

\* A pass over a selection of two lights has left the Penumbra handle visible.
C8_Witness ==
    /\ step.op = "preRender"
    /\ step.pass
    /\ Cardinality(selection) = 2
    /\ spot["Penumbra"].visible

\* C9 as stated: after a pass a handle is visible if and only if every
\* inspector of its inspectors() inspects non-null at every selected path.
C9_VisibleIffInspected ==
    (step.op = "preRender" /\ step.pass)
        => \A id \in SpotHandles \cup WHHandles :
              HandleIsVisible(id) <=> AllInspect(HandleInspectors(id))

\* C9 amended: after a pass a handle is visible if and only if the selection
\* is non-empty, every inspector of its inspectors() inspects non-null at
\* every selected path and, for a Penumbra handle, the penumbra of the
\* last-selected light projects at least twice the circle handle's width
\* away from the cone.
C9_VisibleIffInspectedAndApart ==
    (step.op = "preRender" /\ step.pass)
        => \A id \in SpotHandles \cup WHHandles :
              HandleIsVisible(id) <=>
                  /\ selection # {}
                  /\ AllInspect(HandleInspectors(id))
                  /\ id = "Penumbra" =>
                        PenumbraRasterDistance(LightPenumbraHandleAngle(Get(lastSelectedPath)))
                            >= 2 * g_circleHandleWidthLarge

\* A pass has hidden the Penumbra handle of a spot light whose penumbra is
\* zero while showing its Cone handle.
C9_Witness ==
    /\ step.op = "preRender"
    /\ step.pass
    /\ selection # {}
    /\ spot["Cone"].visible
    /\ ~spot["Penumbra"].visible
    /\ AllInspect(HandleInspectors("Penumbra"))

\* C10: a SpotLightHandle move computes one delta, the candidate clamped
\* against the dragged handle's own drag-start angles minus its start angle,
\* and writes for every snapshot clampHandleAngle(snapshot start + delta,
\* snapshot cone, snapshot penumbra) converted to plug space.
C10_OneDeltaClampedPerSnapshot ==
    (step.op = "dragMove" /\ step.writes # <<>>)
        => LET h == DraggedSpotHandle
               handleType == Get(dragHandle)
               startAngle(d) == IF handleType = "Cone"
                                THEN d.originalConeHandleAngle
                                ELSE Get(d.originalPenumbraHandleAngle)
               delta == clampHandleAngle(h, handleType, Get(step.input).newHandleAngle,
                                         h.m_dragStartData.originalConeHandleAngle,
                                         h.m_dragStartData.originalPenumbraHandleAngle)
                        - startAngle(h.m_dragStartData)
           IN  \A i \in 1..Len(h.m_inspections) :
                  LET d == h.m_inspections[i]
                      angle == clampHandleAngle(h, handleType, startAngle(d) + delta,
                                                d.originalConeHandleAngle,
                                                d.originalPenumbraHandleAngle)
                  IN  IF handleType = "Cone"
                      THEN values[Get(d.coneInspection).path]["coneAngle"] = conePlugAngle(h, angle)
                      ELSE values[Get(d.penumbraInspection).path]["penumbraAngle"]
                              = penumbraPlugAngle(h, angle)

\* A Penumbra move on two lights has moved one light by the delta while the
\* other stayed pinned at its own cone.
C10_Witness ==
    /\ step.op = "dragMove"
    /\ dragHandle = Some("Penumbra")
    /\ Len(spot["Penumbra"].m_inspections) = 2
    /\ \E i, j \in 1..2 :
          LET di == spot["Penumbra"].m_inspections[i]
              dj == spot["Penumbra"].m_inspections[j]
          IN  /\ LightPenumbraHandleAngle(Get(di.penumbraInspection).path)
                    > Get(di.originalPenumbraHandleAngle)
              /\ LightPenumbraHandleAngle(Get(dj.penumbraInspection).path)
                    = Get(dj.originalPenumbraHandleAngle)
              /\ LightPenumbraHandleAngle(Get(dj.penumbraInspection).path)
                    = dj.originalConeHandleAngle

\* C7: every acquireEdit call, in a LightTool handle drag, in
\* SpotLightTool::dragMove and in SpotLightTool::setAngle, is made while an
\* undo scope is open and on an inspection whose editable flag is true.
C7_AcquireInsideScopeOnEditable ==
    \A i \in 1..Len(step.acquired) :
        step.acquired[i].scopeOpen /\ step.acquired[i].editable


\* C11: clampHandleAngle( angle, cone, penumbra ) equals the reference:
\* r = clamp( angle, 0, 90 ); for a Cone handle with inset or absent penumbra
\* type and a penumbra present r = max( r, penumbra ), with outset type
\* r = min( r, 90 - penumbra ); for a Penumbra handle with inset or absent type
\* r = min( r, cone ), with outset type r = min( r, 90 - cone ); with absolute
\* type r is unchanged for both handles.  The outset bound of a Cone handle
\* needs a penumbra: without one there is no value.
C11_ClampEqualsReference ==
    step.op = "clampHandleAngle"
        => LET in == Get(step.input)
               penumbraType == spot[in.handle].m_penumbraType
               cone == in.originalConeAngle
               penumbra == in.originalPenumbraAngle
               r == Max(0, Min(in.angle, 90))
               reference ==
                   IF penumbraType = Some(g_absolutePenumbraType)
                   THEN Some(r)
                   ELSE IF in.handle = "Cone"
                   THEN IF penumbraType = Some(g_outsetPenumbraType)
                        THEN IF penumbra = None THEN None ELSE Some(Min(r, 90 - Get(penumbra)))
                        ELSE IF penumbra = None THEN Some(r) ELSE Some(Max(r, Get(penumbra)))
                   ELSE IF penumbraType = Some(g_outsetPenumbraType)
                        THEN Some(Min(r, 90 - cone))
                        ELSE Some(Min(r, cone))
           IN  step.returned = reference

\* A Cone handle with outset penumbra is held at 90 - penumbra, below the
\* clamped angle.
C11_Witness ==
    /\ step.op = "clampHandleAngle"
    /\ Get(step.input).handle = "Cone"
    /\ spot["Cone"].m_penumbraType = Some(g_outsetPenumbraType)
    /\ Get(step.input).originalPenumbraAngle = Some(30)
    /\ Get(step.input).angle = 90
    /\ step.returned = Some(60)

\* C12: converting a plug angle to the handle's angle and back gives the plug
\* angle again: conePlugAngle( a * 0.5 * multiplier ) = a for the full and
\* the half coneAngleType, and penumbraPlugAngle of the handle's penumbra is
\* the plug's penumbra for every penumbra type.
C12_PlugAngleRoundTrip ==
    step.op = "plugAngles"
        => /\ Get(step.returned).cone = Get(step.input).cone
           /\ Get(step.returned).penumbra = Get(step.input).penumbra

\* An absolute penumbra of 90 on a half-angle cone of 30 has been halved to
\* 45 and converted back.
C12_Witness ==
    /\ step.op = "plugAngles"
    /\ spot["Penumbra"].m_penumbraType = Some(g_absolutePenumbraType)
    /\ spot["Penumbra"].m_angleMultiplier = 2
    /\ Get(step.input).cone = 30
    /\ Get(step.returned).cone = 30
    /\ Get(step.input).penumbra = Some(90)
    /\ Get(step.returned).penumbra = Some(90)

\* C13: a handle's update( path, editScope ) called twice in a row with the
\* same arguments leaves the handle with the same inspectors (scene, edit
\* scope, attribute and parameter) and the same other members after the
\* second call as after the first, changes nothing else and emits nothing.
C13_UpdateIsIdempotent ==
    [][(step'.op = "update" /\ Get(step'.input).repeat)
          => /\ spot' = spot
             /\ wh' = wh
             /\ ~step'.emitted
             /\ UNCHANGED <<worldVars, viewVars, toolVars>>]_vars

\* The Cone handle, holding the inspectors of a half-angle spot light, has
\* been updated a second time.
C13_Witness ==
    /\ step.op = "update"
    /\ Get(step.input).repeat
    /\ Get(step.input).handle = "Cone"
    /\ spot["Cone"].m_coneAngleInspector # None
    /\ spot["Cone"].m_penumbraAngleInspector # None
    /\ spot["Cone"].m_angleMultiplier = 2

\* A move of a WidthHeightHandle that went past the guard of handleDragMove:
\* there are snapshots and every dimension of the handle is editable in all.
WidthHeightMoveMade ==
    /\ step.op = "dragMove"
    /\ dragHandle # None
    /\ Get(dragHandle) \in WHHandles
    /\ wh[Get(dragHandle)].m_inspections # <<>>
    /\ WidthHeightHandleAllInspectionsEnabled(wh[Get(dragHandle)], Get(dragHandle))

\* The value the move wrote to `parameter` of the light of an inspection, if
\* it wrote one.
WrittenTo(inspection) ==
    {step.writes[i].value : i \in {j \in 1..Len(step.writes) :
        SameKey(step.writes[j], Get(inspection))}}

\* C14: a move of a corner handle with Control held gives both multipliers
\* the value of the multiplier of the larger drag-start dimension of the
\* handle's light (the width when it is greater than the height, else the
\* height), so that for every snapshot newWidth / nonZero( originalWidth ) =
\* newHeight / nonZero( originalHeight ); on an edge handle Control changes
\* nothing.  Both written values are the snapshot's dimension times the one
\* leading multiplier num / den, in tenths.
C14_ControlLocksAspect ==
    WidthHeightMoveMade
        => LET h == wh[Get(dragHandle)]
               e == Get(step.input)
               start == h.m_dragStartInfo
               widthLeads == start.originalWidth > start.originalHeight
               leadDelta == IF widthLeads THEN e.dx ELSE e.dy
               leadStart == IF widthLeads THEN start.originalWidth ELSE start.originalHeight
               leadDim == IF leadStart = 0 THEN OneUnit ELSE leadStart
               \* the leading multiplier as num / den with den > 0, not below zero
               den == IF leadDim > 0 THEN leadDim ELSE 0 - leadDim
               raw == IF leadDim > 0 THEN 2 * leadDelta + leadDim ELSE 0 - (2 * leadDelta + leadDim)
               num == IF raw < 0 THEN 0 ELSE raw
           IN  IF WidthHeightHandleConfig(Get(dragHandle)).m_handleType = {"Width", "Height"}
               THEN e.control
                       => \A i \in 1..Len(h.m_inspections) :
                             LET s == h.m_inspections[i]
                                 w == IF s.originalWidth = 0 THEN OneUnit ELSE s.originalWidth
                                 t == IF s.originalHeight = 0 THEN OneUnit ELSE s.originalHeight
                             IN  /\ WrittenTo(s.widthInspection) # {}
                                 /\ WrittenTo(s.heightInspection) # {}
                                 /\ WrittenTo(s.widthInspection) = {(w * num) \div den}
                                 /\ WrittenTo(s.heightInspection) = {(t * num) \div den}
               ELSE step.writes = WidthHeightHandleDragMove(h, Get(dragHandle), e.dx, e.dy,
                                                            ~e.control).writes

\* The corner handle of a 2 by 1 quad light dragged by (+0.5, -1) with Control:
\* that light becomes 3 by 1.5 and the 1 by 2 light selected with it 1.5 by 3.
C14_Witness ==
    /\ WidthHeightMoveMade
    /\ dragHandle = Some("quadCorner")
    /\ Get(step.input) = [dx |-> 5, dy |-> 0 - 10, control |-> TRUE]
    /\ wh[Get(dragHandle)].m_dragStartInfo.originalWidth = 20
    /\ wh[Get(dragHandle)].m_dragStartInfo.originalHeight = 10
    /\ Len(wh[Get(dragHandle)].m_inspections) = 2
    /\ values["lightA"] = QuadValues(30, 15)
    /\ values["lightB"] = QuadValues(15, 30)

\* C15: on a disk light, a move of the radius handle by a displacement d
\* along its axis, at unit scale, from an original radius r sets the radius
\* plug to r + d.
C15_RadiusFollowsDrag ==
    (WidthHeightMoveMade /\ dragHandle = Some("diskRadius"))
        => LET h == wh["diskRadius"]
               r == h.m_dragStartInfo.originalWidth
               d == Get(step.input).dx
           IN  /\ WrittenTo(h.m_dragStartInfo.widthInspection) # {}
               /\ \A radius \in WrittenTo(h.m_dragStartInfo.widthInspection) : radius = r + d

\* C16: a move of a Width-only handle calls acquireEdit on, and writes
\* through, the width inspection of each snapshot and nothing else; a move
\* of a Height-only handle the height inspection of each snapshot and nothing
\* else; only a corner handle acquires and writes both.
C16_EdgeHandlesTouchOneDimension ==
    (step.op = "dragMove" /\ dragHandle # None /\ Get(dragHandle) \in WHHandles)
        => LET h == wh[Get(dragHandle)]
               handleType == WidthHeightHandleConfig(Get(dragHandle)).m_handleType
               n == IF WidthHeightMoveMade THEN Len(h.m_inspections) ELSE 0
               Only(touched, inspections) ==
                   /\ Len(touched) = n
                   /\ \A i \in 1..Len(touched) : SameKey(touched[i], Get(inspections[i]))
               widths == [i \in 1..n |-> h.m_inspections[i].widthInspection]
               heights == [i \in 1..n |-> h.m_inspections[i].heightInspection]
           IN  CASE handleType = {"Width"} ->
                        Only(step.acquired, widths) /\ Only(step.writes, widths)
                 [] handleType = {"Height"} ->
                        Only(step.acquired, heights) /\ Only(step.writes, heights)
                 [] OTHER ->
                        /\ Len(step.acquired) = 2 * n
                        /\ Len(step.writes) = 2 * n
                        /\ \A i \in 1..n :
                              /\ SameKey(step.writes[2 * i - 1], Get(widths[i]))
                              /\ SameKey(step.writes[2 * i], Get(heights[i]))

\* The width handle of a 2 by 1 quad light has been dragged with a 1 by 2
\* light selected too: both widths are written, both heights are as before.
C16_Witness ==
    /\ WidthHeightMoveMade
    /\ dragHandle = Some("quadWidth")
    /\ Len(step.acquired) = 2
    /\ Len(step.writes) = 2
    /\ values["lightA"] = QuadValues(30, 10)
    /\ values["lightB"] = QuadValues(15, 20)

\* C17: a move of a WidthHeightHandle writes, per snapshot, newWidth =
\* nonZero( originalWidth ) * xMult and/or newHeight = nonZero( originalHeight )
\* * yMult, nonZero( v ) being v unless v is 0 and then 1; xMult and yMult
\* are ( 2 * delta ) / ( nonZero drag-start dimension * scale ) + 1, then
\* subject to the aspect lock, then clamped to be at least 0; so a written
\* dimension is never negative when its original is not.  The scale is 1.
C17_WritesAreClampedMultiples ==
    WidthHeightMoveMade
        => LET h == wh[Get(dragHandle)]
               e == Get(step.input)
               handleType == WidthHeightHandleConfig(Get(dragHandle)).m_handleType
               start == h.m_dragStartInfo
               NonZero(v) == IF v = 0 THEN OneUnit ELSE v
               \* ( 2 * delta ) / dim + 1 as <<numerator, denominator>>, denominator > 0
               Mult(delta, dim) == IF dim > 0 THEN <<2 * delta + dim, dim>>
                                   ELSE <<0 - (2 * delta + dim), 0 - dim>>
               x0 == IF "Width" \in handleType
                     THEN Mult(e.dx, NonZero(start.originalWidth)) ELSE <<1, 1>>
               y0 == IF "Height" \in handleType
                     THEN Mult(e.dy, NonZero(start.originalHeight)) ELSE <<1, 1>>
               locked == e.control /\ handleType = {"Width", "Height"}
               x1 == IF locked /\ ~(start.originalWidth > start.originalHeight) THEN y0 ELSE x0
               y1 == IF locked /\ start.originalWidth > start.originalHeight THEN x0 ELSE y0
               xMult == IF x1[1] < 0 THEN <<0, 1>> ELSE x1
               yMult == IF y1[1] < 0 THEN <<0, 1>> ELSE y1
           IN  \A i \in 1..Len(h.m_inspections) :
                  LET s == h.m_inspections[i]
                  IN  /\ "Width" \in handleType
                            => /\ WrittenTo(s.widthInspection) # {}
                               /\ \A nw \in WrittenTo(s.widthInspection) :
                                     /\ nw = (NonZero(s.originalWidth) * xMult[1]) \div xMult[2]
                                     /\ s.originalWidth >= 0 => nw >= 0
                      /\ "Height" \in handleType
                            => /\ WrittenTo(s.heightInspection) # {}
                               /\ \A nh \in WrittenTo(s.heightInspection) :
                                     /\ nh = (NonZero(s.originalHeight) * yMult[1]) \div yMult[2]
                                     /\ s.originalHeight >= 0 => nh >= 0

\* The corner handle of a quad light of width 0 and height 1 dragged by
\* (-1, +0.5) without Control: the width multiplier -1 is clamped to 0 and
\* the width written is 0, the height is doubled.
C17_Witness ==
    /\ WidthHeightMoveMade
    /\ dragHandle = Some("quadCorner")
    /\ Get(step.input) = [dx |-> 0 - 10, dy |-> 5, control |-> FALSE]
    /\ wh["quadCorner"].m_dragStartInfo.originalWidth = 0
    /\ wh["quadCorner"].m_dragStartInfo.originalHeight = 10
    /\ values["lightA"] = QuadValues(0, 20)

\* C18: a dirty flag (handleInspectionsDirty, handleTransformsDirty,
\* priorityPathsDirty) becomes true only in an event handler (plugDirtied,
\* also when a drag move's write dirties the scene, contextChanged,
\* metadataChanged, dirtyHandleTransforms) and becomes false only in
\* preRender; no handler and no drag callback clears a flag.
C18_FlagsClearedOnlyInPreRender ==
    [][\A f \in 1..3 :
          LET flags == <<m_handleInspectionsDirty, m_handleTransformsDirty, m_priorityPathsDirty>>
              flagsAfter == <<m_handleInspectionsDirty', m_handleTransformsDirty',
                              m_priorityPathsDirty'>>
          IN  /\ (flags[f] /\ ~flagsAfter[f]) => step'.op = "preRender"
              /\ (~flags[f] /\ flagsAfter[f])
                    => \/ step'.op = "event"
                       \/ step'.op = "dragMove" /\ step'.writes # <<>>]_vars

\* A drag has ended, after a move that wrote a plug, with the inspections and
\* the transforms still dirty and the priority paths clean.
C18_Witness ==
    /\ step.op = "dragEnd"
    /\ values # Get(drag.preValues)
    /\ m_handleInspectionsDirty
    /\ m_handleTransformsDirty
    /\ ~m_priorityPathsDirty

\* C19: plugDirtied sets the flags of the table and leaves the others as
\* they were.  Active plug, scene childNames, the view's editScope plug:
\* inspections and priority paths dirty, selectionChanged emitted when not
\* dragging, transforms untouched.  Scene transform: transforms dirty only.
\* Scene attributes: inspections and transforms dirty, priority paths
\* untouched, nothing emitted.  Visualiser scale, frustum scale: inspections
\* dirty only.  Any other plug: nothing.
C19_PlugDirtiedFollowsTable ==
    [][(step'.op = "event" /\ step'.input # None)
          => LET plug == Get(step'.input)
                 Sets(flag, flagAfter, set) == flagAfter = (IF set THEN TRUE ELSE flag)
                 Row(inspections, transforms, priorityPaths, emits) ==
                     /\ Sets(m_handleInspectionsDirty, m_handleInspectionsDirty', inspections)
                     /\ Sets(m_handleTransformsDirty, m_handleTransformsDirty', transforms)
                     /\ Sets(m_priorityPathsDirty, m_priorityPathsDirty', priorityPaths)
                     /\ step'.emitted = emits
             IN  CASE plug \in {"active", "childNames", "editScope"} ->
                          Row(TRUE, FALSE, TRUE, ~m_dragging)
                   [] plug = "transform" -> Row(FALSE, TRUE, FALSE, FALSE)
                   [] plug = "attributes" -> Row(TRUE, TRUE, FALSE, FALSE)
                   [] plug \in {"visualiserScale", "frustumScale"} -> Row(TRUE, FALSE, FALSE, FALSE)
                   [] OTHER -> Row(FALSE, FALSE, FALSE, FALSE)]_vars

\* The scene's attributes have been dirtied after a render: the inspections
\* and the transforms are dirty, the priority paths are not.
C19_Witness ==
    /\ step.op = "event"
    /\ step.input = Some("attributes")
    /\ ~step.emitted
    /\ m_handleInspectionsDirty
    /\ m_handleTransformsDirty
    /\ ~m_priorityPathsDirty

\* C20: when a drag ends the dragged handle's drag-start snapshots are
\* cleared: after dragEnd has returned the handle holds no snapshot.
C20_SnapshotsClearedAtDragEnd ==
    [][(step'.op = "dragEnd" /\ dragHandle # None)
          => IF Get(dragHandle) \in SpotHandles
             THEN spot'[Get(dragHandle)].m_inspections = <<>>
             ELSE wh'[Get(dragHandle)].m_inspections = <<>>]_vars

\* C21: at every dragBegin the tool captures the script node that owns the
\* source plug of the dragged handle's first inspection, and every undo
\* scope dragMove opens is on that script node: a move that writes plugs
\* never runs without a script node.
C21_WritingMoveHasScriptNode ==
    (step.op = "dragMove" /\ step.writes # <<>>)
        => /\ m_scriptNode = Some(TheScript)
           /\ \A i \in 1..Len(step.acquired) : step.acquired[i].scopeOpen

\* C22: when, during a drag move, the edit plug acquired for some selected
\* light is not a float plug, an exception is raised, none of that move's
\* changes remain applied (values written to earlier snapshots of the same
\* move included) and the drag is ended: m_dragging becomes false.
C22_TypeMismatchRollsBackAndEndsDrag ==
    [][(/\ step'.op = "dragMove"
        /\ step'.acquired # <<>>
        /\ ~AcquiredPlugIsFloat(step'.acquired[Len(step'.acquired)]))
          => /\ step'.threw
             /\ values' = values
             /\ edits' = edits
             /\ undoStack' = undoStack
             /\ ~m_dragging']_vars

C24_HandleTransformThrowsIffNotEditable ==
    step.op = "handleTransform" =>
        /\ step.threw <=>
              \/ slt.m_selection = <<>>
              \/ \E i \in 1..Len(slt.m_selection) :
                    \/ slt.m_selection[i].inspection = None
                    \/ ~Get(slt.m_selection[i].inspection).editable
        /\ step.threw <=> step.returned = None
        /\ ~step.threw => ~slt.m_handleDirty

C24_Witness ==
    /\ step.op = "handleTransform"
    /\ step.returned = Some([refreshed |-> TRUE])
    /\ Len(slt.m_selection) = 1
    /\ ~slt.m_handleDirty

\* C25: registerSpotLight inserts a mapping only when none exists for the key
\* shaderAttribute + shaderName: the first registration of a key returns
\* true, every later registration of that key returns false and leaves the
\* parameter registered first in effect for the lookups of spotLightParameter.
C25_FirstRegistrationWins ==
    [][/\ step'.op = "registerSpotLight" =>
            LET key == Get(step'.input).key
                before == slt.g_spotLightParameterMap
                after == slt'.g_spotLightParameterMap
            IN  /\ Get(step'.returned) <=> key \notin DOMAIN before
                /\ DOMAIN after = DOMAIN before \cup {key}
                /\ \A k \in DOMAIN before : after[k] = before[k]
                /\ key \notin DOMAIN before => after[key] = Get(step'.input).coneAngleParameter
       /\ step'.op # "registerSpotLight" =>
            slt'.g_spotLightParameterMap = slt.g_spotLightParameterMap
       /\ step'.op = "spotLightParameter" =>
            LET key == LightAttribute \o lights[Get(step'.input)].shader
            IN  IF key \in DOMAIN slt.g_spotLightParameterMap
                THEN step'.returned = Some([attribute |-> LightAttribute,
                                            parameter |-> slt.g_spotLightParameterMap[key]])
                ELSE step'.returned = None]_vars

\* A second registration of the quad light's key, made under another
\* attribute and shader name, was refused and the lookup gives the first.
C25_Witness ==
    /\ step.op = "registerSpotLight"
    /\ step.returned = Some(FALSE)
    /\ Get(step.input).key = "lightquad"
    /\ Get(step.input).coneAngleParameter = "coneAngle"
    /\ slt.g_spotLightParameterMap["lightquad"] = "width"

\* C26: ParameterInspector::editFunction yields exactly one of an edit
\* function or a non-empty reason: when a read-only node is reported it
\* returns "<relative name of that node> is locked." and no edit function,
\* otherwise an edit function and no reason.
C26_EditFunctionOrLockedReason ==
    step.op = "editFunction" =>
        LET readOnlyReason == Get(step.input).readOnlyReason
            result == Get(step.returned)
        IN  /\ (result.failure = None) # (result.function = None)
            /\ readOnlyReason # None =>
                  /\ result.function = None
                  /\ result.failure = Some(Get(readOnlyReason) \o " is locked.")
                  /\ Get(result.failure) # ""
            /\ readOnlyReason = None =>
                  /\ result.failure = None
                  /\ result.function # None

C26_Witness ==
    /\ step.op = "editFunction"
    /\ Get(step.returned).failure = Some("Box.EditScope is locked.")
    /\ Get(step.returned).function = None

\* C27: ParameterInspector::source on a ShaderTweaks node returns null unless
\* the node's filter matches the inspected location exactly; otherwise it
\* returns the first tweak in plug order whose name equals the parameter
\* name and whose enabled plug is true, or null when there is none.
C27_SourceIsFirstEnabledTweak ==
    step.op = "source" =>
        LET in == Get(step.input)
            hits == {i \in 1..Len(in.tweaks) :
                        in.tweaks[i].name = in.parameter /\ in.tweaks[i].enabled}
        IN  IF "ExactMatch" \notin in.match \/ hits = {}
            THEN step.returned = None
            ELSE /\ step.returned # None
                 /\ Get(step.returned) \in hits
                 /\ \A i \in hits : Get(step.returned) <= i

\* A disabled tweak of the parameter and a tweak of another parameter are
\* passed over.
C27_Witness ==
    /\ step.op = "source"
    /\ step.returned = Some(3)
    /\ Get(step.input).parameter = "coneAngle"
    /\ Get(step.input).tweaks[1] = [name |-> "coneAngle", enabled |-> FALSE]
    /\ Get(step.input).tweaks[2] = [name |-> "penumbraAngle", enabled |-> TRUE]

\* C28: the hover tooltip lists at most N = 3 warnings or non-editable
\* reasons; when the handle has more than N reasons, exactly N are listed,
\* followed by one "and K more" line with K = total - N.
C28_AtMostThreeTipsListed ==
    step.op = "drawSelectionTips" =>
        LET total == Len(Get(step.input))
            info == Get(step.returned)
        IN  /\ Len(info.lines) <= g_warningTipCount
            /\ total > g_warningTipCount =>
                  /\ Len(info.lines) = g_warningTipCount
                  /\ info.more = Some(total - g_warningTipCount)

\* C28 as amended: up to N + 1 reasons are all listed and no line counts
\* them; of more than N + 1 reasons the first N are listed, followed by one
\* "and K more" line with K = total - N.
C28_TipsListedOrCounted ==
    step.op = "drawSelectionTips" =>
        LET warningTips == Get(step.input)
            total == Len(warningTips)
            info == Get(step.returned)
        IN  /\ total <= g_warningTipCount + 1 =>
                  (info.lines = warningTips /\ info.more = None)
            /\ total > g_warningTipCount + 1 =>
                  /\ info.lines = [i \in 1..g_warningTipCount |-> warningTips[i]]
                  /\ info.more = Some(total - g_warningTipCount)

C28_Witness ==
    /\ step.op = "drawSelectionTips"
    /\ Len(Get(step.input)) = g_warningTipCount + 1
    /\ Len(Get(step.returned).lines) = g_warningTipCount + 1
    /\ Get(step.returned).more = None

C30_PreRenderIgnoresFlagsWhileDragging ==
    [][(m_dragging /\ step'.op = "preRender") =>
          /\ UNCHANGED <<m_handleInspectionsDirty, m_priorityPathsDirty,
                         m_handleTransformsDirty>>
          /\ UNCHANGED <<spot, wh, handlesVisible>>
          /\ ~step'.pass
          /\ step'.priorityPaths = None
          /\ step'.transform = None]_vars

\* C30, as the code has it: while a drag is active, preRender recomputes
\* neither handle inspections nor priority paths and clears neither of their
\* two flags; the handle transforms are recomputed when their flag is set and
\* that flag is cleared, drag or no drag.
C30_PreRenderKeepsInspectionsAndPriorityPathsWhileDragging ==
    [][(m_dragging /\ step'.op = "preRender") =>
          /\ UNCHANGED <<m_handleInspectionsDirty, m_priorityPathsDirty>>
          /\ UNCHANGED <<spot, wh, handlesVisible>>
          /\ ~step'.pass
          /\ step'.priorityPaths = None
          /\ ~m_handleTransformsDirty'
          /\ step'.transform = IF m_handleTransformsDirty
                               THEN updateHandleTransforms ELSE None]_vars

\* A render during a drag that found all three flags set, left two of them
\* set and placed the handles.
C30_Witness ==
    /\ m_dragging
    /\ step.op = "preRender"
    /\ m_handleInspectionsDirty
    /\ m_priorityPathsDirty
    /\ ~m_handleTransformsDirty
    /\ step.transform # None

\* C31: no inspection-dirtying event is lost across a drag.  A set
\* m_handleInspectionsDirty or m_priorityPathsDirty stays set through every
\* step of a drag, dragEnd included; a preRender outside a drag that finds
\* the inspections dirty runs the pass over the handles; and no further drag
\* begins on the snapshots of before a writing drag while the inspections are
\* still dirty.
C31_DirtyEventsSurviveDrag ==
    [][/\ (m_dragging /\ m_handleInspectionsDirty) => m_handleInspectionsDirty'
       /\ (m_dragging /\ m_priorityPathsDirty) => m_priorityPathsDirty'
       /\ (step'.op = "preRender" /\ ~m_dragging /\ m_handleInspectionsDirty)
             => /\ step'.pass
                /\ spot' = updateHandleInspections.spot
                /\ wh' = updateHandleInspections.wh
                /\ ~m_handleInspectionsDirty'
       /\ (step'.op = "dragBegin" /\ drag.pastGroups # {})
             => ~m_handleInspectionsDirty]_vars

\* The drag-start snapshots handle `id` holds, and the paths they were
\* captured at.
HandleSnapshots(id) == IF id \in SpotHandles THEN spot[id].m_inspections ELSE wh[id].m_inspections

SnapshotPath(id, snapshot) ==
    IF id \in SpotHandles
    THEN Get(snapshot.coneInspection).path
    ELSE Get(snapshot.widthInspection).path

OneSnapshotPerSelectedPath(id) ==
    IF HandleIsVisible(id)
    THEN /\ Len(HandleSnapshots(id)) = Cardinality(selection)
         /\ \A i \in 1..Len(HandleSnapshots(id)) :
               SnapshotPath(id, HandleSnapshots(id)[i]) = SelectionSeq(selection)[i]
    ELSE HandleSnapshots(id) = <<>>

\* C32: after any updateHandleInspections pass outside a drag, each visible
\* handle holds exactly one drag-start snapshot per currently selected path,
\* captured with that path current in the context, and each handle that is
\* not visible holds none.
C32_SnapshotPerSelectedPathAfterPass ==
    (step.op = "preRender" /\ step.pass)
        => \A id \in SpotHandles \cup WHHandles : OneSnapshotPerSelectedPath(id)

\* C32 for the passes that reach the loop over the handles, those with a
\* non-empty selection.
C32_SnapshotPerSelectedPathAfterLoop ==
    (step.op = "preRender" /\ step.pass /\ selection # {})
        => \A id \in SpotHandles \cup WHHandles : OneSnapshotPerSelectedPath(id)

\* The inspector an update creates for the parameter that the metadata
\* `key` names on a light of type `lightType` at `path`, if it creates one.
InspectorCreatedAt(path, lightType, key) ==
    LET shader == lights[path].shader
    IN  IF shader # "mesh" /\ isLightType(shader, lightType) /\ Metadata(shader, key) # None
        THEN Some(ParameterInspector(LightAttribute, Get(Metadata(shader, key))))
        ELSE None

\* C33: after SpotLightHandle::update with a valid path every inspector the
\* handle holds was created in that call; when the location has no spot light
\* shader, or no coneAngleParameter metadata, the handle holds no cone or
\* penumbra inspector of an earlier binding.
C33_InspectorsAreOfThisUpdate ==
    (/\ step.op = "update"
     /\ Get(step.input).handle \in SpotHandles
     /\ PathIsValid(Get(step.input).path))
        => LET h == spot[Get(step.input).handle]
               path == Get(step.input).path
               cone == InspectorCreatedAt(path, "spot", "coneAngleParameter")
           IN  /\ h.m_coneAngleInspector = cone
               /\ h.m_penumbraAngleInspector =
                     IF cone = None THEN None
                     ELSE InspectorCreatedAt(path, "spot", "penumbraAngleParameter")

\* A move of a WidthHeightHandle with zero displacement from the drag start
\* that went past the guard of handleDragMove.
ZeroDisplacementMove ==
    /\ WidthHeightMoveMade
    /\ Get(step.input).dx = 0
    /\ Get(step.input).dy = 0

\* The value `write` sets a plug to, and the value that plug had when the
\* drag began.
ValueAtDragStart(write) == Get(drag.preValues)[write.path][write.parameter]

\* C34: a WidthHeightHandle drag move with zero displacement from the drag
\* start writes back, for every snapshot, exactly the width / height the
\* light had at drag start, for every original value including 0.
C34_ZeroDisplacementWritesStartValues ==
    ZeroDisplacementMove
        => /\ step.writes # <<>>
           /\ \A i \in 1..Len(step.writes) :
                 step.writes[i].value = ValueAtDragStart(step.writes[i])

\* C34, as the code has it: the move writes back, for every snapshot, the
\* width / height recorded in that snapshot, which is what the light had at
\* drag start when no earlier drag wrote since the snapshots were taken, for
\* every original value other than 0; a dimension that was 0 is written as 1.
C34_ZeroDisplacementWritesNonZeroStartValues ==
    ZeroDisplacementMove
        => LET h == wh[Get(dragHandle)]
               handleType == WidthHeightHandleConfig(Get(dragHandle)).m_handleType
               OneForZero(v) == IF v = 0 THEN OneUnit ELSE v
           IN  /\ step.writes # <<>>
               /\ \A i \in 1..Len(h.m_inspections) :
                     LET s == h.m_inspections[i]
                     IN  /\ "Width" \in handleType
                               => WrittenTo(s.widthInspection) = {OneForZero(s.originalWidth)}
                         /\ "Height" \in handleType
                               => WrittenTo(s.heightInspection) = {OneForZero(s.originalHeight)}
               /\ drag.pastGroups = {}
                     => \A i \in 1..Len(step.writes) :
                           step.writes[i].value = OneForZero(ValueAtDragStart(step.writes[i]))

\* A move back to the drag start, after a move that had changed the values,
\* on a selection that holds a quad light of width 0 and a square one: the
\* square light has its start values again and the width 0 has become 1.
C34_Witness ==
    /\ ZeroDisplacementMove
    /\ dragHandle = Some("quadCorner")
    /\ selection = {"lightA", "lightB"}
    /\ Get(drag.preValues)["lightA"] = QuadValues(0, 10)
    /\ values["lightA"] = QuadValues(OneUnit, 10)
    /\ values["lightB"] = QuadValues(20, 20)
    /\ Len(undoStack) > 0

\* A move of the Cone handle that went past the guards of handleDragMove,
\* on snapshots none of which has a penumbra angle.
ConeMoveWithoutPenumbra ==
    /\ step.op = "dragMove"
    /\ dragHandle = Some("Cone")
    /\ Get(step.input).hit
    /\ spot["Cone"].m_inspections # <<>>
    /\ SpotLightHandleAllInspectionsEnabled(spot["Cone"], "Cone")
    /\ spot["Cone"].m_dragStartData.originalPenumbraHandleAngle = None
    /\ \A i \in 1..Len(spot["Cone"].m_inspections) :
          spot["Cone"].m_inspections[i].originalPenumbraHandleAngle = None

\* C35: dragging a Cone handle on a spot light that has no penumbra
\* parameter completes without raising and writes clamp( start + delta, 0,
\* 90 ) converted to plug space, for every value of the penumbraType
\* metadata, "outset" included.
C35_ConeOnlyDragWritesClampedAngle ==
    ConeMoveWithoutPenumbra
        => LET h == spot["Cone"]
               Clamped(a) == Max(0, Min(a, Ninety))
               delta == Clamped(Get(step.input).newHandleAngle)
                           - h.m_dragStartData.originalConeHandleAngle
           IN  /\ ~step.threw
               /\ Len(step.writes) = Len(h.m_inspections)
               /\ \A i \in 1..Len(step.writes) :
                     step.writes[i].value =
                        conePlugAngle(h, Clamped(h.m_inspections[i].originalConeHandleAngle + delta))

\* The steps of the SpotLightTool that call selection() or updateSelection().
SelectionReadingSteps ==
    {"spotLightToolPreRender", "setAngle", "spotLightToolDragBegin"}

\* C36: between dragBegin and dragEnd of the SpotLightTool, selection()
\* returns the list computed at dragBegin (the one the drag's Angles were
\* made from) whatever context or plug changes occur; a set m_selectionDirty
\* stays set during the drag, dragEnd included; and the first selection() or
\* preRender outside a drag that finds the flag set recomputes the selection
\* and clears the flag.
C36_SelectionFrozenDuringSpotLightToolDrag ==
    [][/\ slt.m_dragging
          => /\ slt'.m_selection = slt.m_selection
             /\ slt'.m_dragging => updateSelection(slt').m_selection = slt.m_selection
             /\ slt.m_selectionDirty => slt'.m_selectionDirty
       /\ slt'.m_dragging
          => [k \in 1..Len(slt'.m_drag) |-> slt'.m_drag[k].inspection]
                = [k \in 1..Len(slt'.m_selection) |-> slt'.m_selection[k].inspection]
       /\ (~slt.m_dragging /\ slt.m_selectionDirty /\ step'.op \in SelectionReadingSteps)
          => /\ ~slt'.m_selectionDirty
             /\ slt'.m_selection = updateSelection(slt).m_selection
             /\ \A k \in 1..Len(slt'.m_selection) :
                   slt'.m_selection[k].path \in selectedPaths]_vars

\* A render during a drag of the SpotLightTool, after the view's selection
\* was emptied: the flag is set and the tool's selection still holds the
\* dragged light.
C36_Witness ==
    /\ slt.m_dragging
    /\ step.op = "spotLightToolPreRender"
    /\ slt.m_selectionDirty
    /\ selectedPaths = {}
    /\ slt.m_selection # <<>>
    /\ slt.m_drag # <<>>

\* Two items whose inspections are editable with the same source plug.
ShareEditableSource(t, a, b) ==
    /\ a.inspection # None
    /\ b.inspection # None
    /\ Get(a.inspection).editable /\ Get(a.inspection).source
    /\ Get(b.inspection).editable /\ Get(b.inspection).source
    /\ \E k \in 1..Len(t.sourceOrder) : {a.path, b.path} \subseteq t.sourceOrder[k]

HasEditableSource(item) ==
    /\ item.inspection # None
    /\ Get(item.inspection).editable
    /\ Get(item.inspection).source

\* C37: after updateSelection with the last-selected path among the selected
\* paths, no two items of the selection share the same non-null editable
\* source plug, no item without an editable source has been removed, and the
\* item of the last-selected path is retained and is the final element.
\* Every item kept is one the loop built, once, and every item removed shares
\* its source with one that is kept.
C37_SelectionIsDeduplicatedLastAtBack ==
    step.op = "updateSelection"
        => LET items == Get(step.input).items
               sel == slt.m_selection
               kept == {sel[k] : k \in 1..Len(sel)}
               built == {items[k] : k \in 1..Len(items)}
           IN  /\ \A i, j \in 1..Len(sel) :
                     i # j => /\ ~ShareEditableSource(slt, sel[i], sel[j])
                              /\ sel[i].path # sel[j].path
               /\ kept \subseteq built
               /\ \A x \in built : ~HasEditableSource(x) => x \in kept
               /\ \A x \in built \ kept : \E y \in kept : ShareEditableSource(slt, x, y)
               /\ sel # <<>>
               /\ sel[Len(sel)].path = Get(lastSelectedPath)

\* Three selected lights, the first and the last-selected third driven by one
\* plug, the second without inspection: the first is removed, the second and
\* the third are kept, the third at the back.
C37_Witness ==
    /\ step.op = "updateSelection"
    /\ selectedPaths = {"lightA", "lightB", "lightC"}
    /\ lastSelectedPath = Some("lightC")
    /\ slt.sourceOrder = <<{"lightB"}, {"lightA", "lightC"}>>
    /\ HasEditableSource(Get(step.input).items[1])
    /\ Get(step.input).items[2].inspection = None
    /\ Len(slt.m_selection) = 2
    /\ slt.m_selection[1].path = "lightB"
    /\ slt.m_selection[2].path = "lightC"

\* What one SpotLightTool::dragMove does to the light of one Angle of the
\* drag: a FloatPlug is set to the value it had at the first move of the
\* drag times the move's scaling, any other plug keeps its value.
AngleScaledFromFirstMove(k) ==
    LET a == slt.m_drag[k]
        inspection == Get(a.inspection)
        atFirstMove == IF a.m_originalAngle # None
                       THEN Get(a.m_originalAngle)
                       ELSE values[inspection.path][inspection.parameter]
    IN  IF AppliedPlugIsFloat(inspection)
        THEN /\ step'.input # None
             /\ values'[inspection.path][inspection.parameter]
                    = atFirstMove * Get(step'.input).scaling
             /\ slt'.m_drag[k].m_originalAngle = Some(atFirstMove)
        ELSE /\ values'[inspection.path][inspection.parameter]
                    = values[inspection.path][inspection.parameter]
             /\ slt'.m_drag[k].m_originalAngle = None

\* C38: in a SpotLightTool drag each dragMove sets the cone-angle plug of
\* every dragged light to the value the plug had at the first move of that
\* drag times the move's scaling (dragBegin starts every Angle without a
\* remembered value), so that the values after the drag depend on the last
\* move's scaling only; a light whose edit plug is not a float is left
\* unchanged while the other lights are still written.
C38_DragMoveScalesFirstMoveValue ==
    [][/\ step'.op = "spotLightToolDragBegin" =>
            \A k \in 1..Len(slt'.m_drag) : slt'.m_drag[k].m_originalAngle = None
       /\ step'.op = "spotLightToolDragMove" =>
            \A k \in 1..Len(slt.m_drag) :
                slt.m_drag[k].inspection # None => AngleScaledFromFirstMove(k)]_vars

\* The same for the drags all of whose Angles have an editable inspection,
\* as they have when the handle was shown for the selection that is dragged.
C38_EditableDragScalesFirstMoveValue ==
    [][(/\ step'.op = "spotLightToolDragMove"
        /\ \A k \in 1..Len(slt.m_drag) :
              /\ slt.m_drag[k].inspection # None
              /\ Get(slt.m_drag[k].inspection).editable)
          => /\ ~step'.threw
             /\ \A k \in 1..Len(slt.m_drag) : AngleScaledFromFirstMove(k)]_vars

\* A second move of a drag of an inset spot light and a spot light without
\* FloatPlugs: the first is written from its first-move value, the second
\* keeps its value.
C38_EditableDragReached ==
    /\ step.op = "spotLightToolDragMove"
    /\ Len(slt.m_drag) = 2
    /\ ~step.threw
    /\ Len(step.writes) = 1
    /\ \E k \in 1..2 : /\ slt.m_drag[k].m_originalAngle # None
                       /\ values[Get(slt.m_drag[k].inspection).path]["coneAngle"]
                             # Get(slt.m_drag[k].m_originalAngle)
    /\ \E k \in 1..2 : /\ slt.m_drag[k].inspection # None
                       /\ lights[Get(slt.m_drag[k].inspection).path].shader = "spotCustom"

\* C39: registrations of different (shaderAttribute, shaderName) pairs never
\* interfere: registerSpotLight returns false for a pair only when that same
\* pair was registered before, and spotLightParameter returns a cone
\* parameter only when it was registered for the (attribute, output shader
\* name) found at the location.
C39_RegistrationsOfDifferentPairsDoNotInterfere ==
    [][/\ (step'.op = "registerSpotLight" /\ ~Get(step'.returned)) =>
            \E r \in slt.registeredPairs :
                /\ r.shaderAttribute = Get(step'.input).shaderAttribute
                /\ r.shaderName = Get(step'.input).shaderName
       /\ (step'.op = "spotLightParameter" /\ step'.returned # None) =>
            \E r \in slt.registeredPairs :
                /\ r.shaderAttribute = Get(step'.returned).attribute
                /\ r.shaderName = lights[Get(step'.input)].shader
                /\ r.coneAngleParameter = Get(step'.returned).parameter]_vars

====
